---- MODULE Spec2Model ----
(***************************************************************************)
(* A state-machine model of drivers/lightnvm/pblk-core.c: the L2P map,    *)
(* the write ring, write admission, the media writer, the mapper, write   *)
(* completion with in-order retirement, the read path's L2P pinning,      *)
(* discard and teardown padding.                                          *)
(*                                                                         *)
(* The ring buffer functions, pblk_update_map, pblk_page_invalidate and   *)
(* block_is_full are declared in headers and files that are not part of   *)
(* pblk-core.c; they are modelled after the design document and marked so *)
(* in MODEL_MAP.json.                                                      *)
(***************************************************************************)
EXTENDS Integers, Sequences, FiniteSets, TLC

\* ------------------------------------------------------------------ bounds
NrLBAs == 2
RingSize == 2
MaxBios == 3
MaxSecs == 2
NrBlks == 4
PagesPerBlk == 2
MaxBad == 1
SeqSecs == 2
gc_ths_emergency == 2
MaxMinPgs == 3
MaxMaxPgs == 6
MaxAvail == 8
InflightCap == 400000
NrLuns == 2
MaxFwPpas == 4
MaxGcSecs == 2
MaxBadErase == 2
MaxChkSecs == 6

LBAs == 0 .. (NrLBAs - 1)
\* pblk->nr_secs: the device is one sector larger than the LBA window the
\* model writes and reads
pblk_nr_secs == NrLBAs + 1
SeqIdx == 0 .. (SeqSecs - 1)
Slots == 0 .. (RingSize - 1)
BlockIds == 1 .. NrBlks
Submitters == {1, 2}
Readers == {1, 2}
MaxPos == MaxBios * MaxSecs
\* (min_write_pgs, max_write_pgs) of the device geometries explored
Geometries == {<<1, 1>>, <<1, 2>>, <<2, 2>>}
\* the geometries pblk_calc_secs_to_sync is evaluated in
CalcGeometries ==
    {g \in (1 .. MaxMinPgs) \X (1 .. MaxMaxPgs) : g[2] % g[1] = 0}
\* the geometries pblk_end_w_fail is evaluated in
FwGeometries == {<<1, MaxFwPpas>>, <<2, MaxFwPpas>>}
\* per-bio sector counts explored by the backpressure specification
InflightSecs == {8, 64}

VARIABLES
    min_write_pgs, max_write_pgs, \* pblk->min_write_pgs, pblk->max_write_pgs
    trans_map,      \* pblk->trans_map: LBA -> [ppa, rc (read-pin), rblk]
    rb,             \* pblk->rwb entries: slot -> [lba, bio, data, paddr, rblk]
    mem, subm, sync,\* the ring's three positions (logical, unwrapped)
    sync_point,     \* the ring's pending flush barrier (-1: none)
    compl_list,     \* pblk->compl_list: completed contexts parked out of order
    inflight_rqs,   \* write requests submitted to the device, not yet completed
    write_inflight, \* pblk->write_inflight
    blks,           \* block id -> [cur_sec, sector_bitmap, sync_bitmap, ...]
    cur,            \* rlun->cur (one LUN)
    prov_q,         \* the LUN's queue of pre-erased blocks
    next_blk,       \* next block the media manager hands out
    media,          \* what the device holds: <<blk, sec>> -> payload
    sub,            \* submitter threads inside pblk_buffer_write
    rd,             \* reader threads inside pblk_submit_read
    nbio,           \* number of bios submitted so far
    teardown,       \* TRUE once pblk_pad_open_blks runs
    \* history variables, read only by the properties
    last,           \* LBA -> payload of the latest published write
    acks,           \* bio_endio calls of pblk_end_w_bio: {[bio, pos]}
    bio_upto,       \* bio -> ring position its admission ended at
    loc,            \* ring position -> <<blk, sec>> the mapper gave it
    drained,        \* TRUE once a parked context was retired from compl_list
    srd,            \* a reader thread inside pblk_read_ppalist_rq (two sectors)
    emergency_gc,   \* the emergency-GC mode flag pblk_emergency_gc_mode reads
    ret,            \* bio -> value pblk_buffer_write returns for it
    pad,            \* pblk_pad_open_blks: its position, the blocks it left open
    calc,           \* arguments and result of a pblk_calc_secs_to_sync call
    wr,             \* the media writer inside pblk_setup_w_rq, group by group
    fw,             \* one call of pblk_end_w_fail: its request and what it did
    cls,            \* close-block writes: in flight, ended, queued for GC
    race,           \* a completion and a padding mapper at work on one block
    pool,           \* the pre-erased queue of the LUN, provisioner and pool_get
    gcw,            \* a GC thread inside pblk_write_list_to_cache
    chk             \* a read's range and the outcome of its bounds assertion

vars == <<pool, gcw, chk,
          min_write_pgs, max_write_pgs, trans_map, rb, mem, subm, sync,
          sync_point, compl_list, inflight_rqs, write_inflight, blks, cur,
          prov_q, next_blk, media, sub, rd, nbio, teardown, last, acks,
          bio_upto, loc, drained,
                   srd, emergency_gc, ret, pad, calc, wr, fw, cls, race>>

\* ------------------------------------------------------------ address types
PpaEmpty == [t |-> "empty", a |-> 0, s |-> 0]
pblk_cacheline_to_ppa(line) == [t |-> "cache", a |-> line, s |-> 0]
DevPpa(b, s) == [t |-> "dev", a |-> b, s |-> s]
nvm_addr_in_cache(ppa) == ppa.t = "cache"
ppa_empty(ppa) == ppa.t = "empty"

NoData == <<0, 0>>
\* history markers for a discarded LBA: it was unmapped or cached, or it was
\* mapped to a device sector
Discarded == <<0, 1>>
DiscardedDev == <<0, 2>>
Payload(bio, i) == <<bio, i>>

nr_blk_dsecs == PagesPerBlk * min_write_pgs
\* the data sectors of a block in the widest geometry explored
MaxDsecs == PagesPerBlk * 2
\* ADDR_EMPTY: the LBA recorded for a sector that holds no data
ADDR_EMPTY == -1

Min(a, b) == IF a < b THEN a ELSE b
Max(a, b) == IF a > b THEN a ELSE b

pblk_rb_wrap_pos(pos) == pos % RingSize

EmptyEntry == [lba |-> 0, bio |-> 0, data |-> NoData, paddr |-> 0, rblk |-> 0]
FreshBlk == [cur_sec |-> 0, sector_bitmap |-> {}, sync_bitmap |-> {},
             invalid_bitmap |-> {}, nr_invalid_secs |-> 0, nr_lbas |-> 0,
             nr_padded |-> 0, bad |-> FALSE, open |-> FALSE, closes |-> 0,
             lba_list |-> [x \in 0 .. (MaxDsecs - 1) |-> 0]]
IdleSub == [pc |-> "idle", bio |-> 0, lba |-> 0, n |-> 0, i |-> 0, pos |-> 0,
            flush |-> FALSE]
IdleSrd == [pc |-> "idle", lba |-> 0, ppas |-> [i \in SeqIdx |-> PpaEmpty],
            locked |-> 0, pre |-> [i \in SeqIdx |-> NoData], fresh |-> TRUE,
            path |-> "none", ended |-> 0, bi_error |-> FALSE,
            dev_error |-> FALSE, ret |-> "none",
            read_bitmap |-> {}, ppa_list |-> <<>>, dev_reads |-> 0,
            sync_reads |-> 0]
IdlePad == [pc |-> "none", left |-> {}, blk |-> FreshBlk, f0 |-> 0,
            nr_free_secs |-> 0, nr_secs |-> 0, rqs |-> 0, maps |-> 0,
            subs |-> 0, batches |-> <<>>]
IdleCalc == [secs_avail |-> 0, secs_to_flush |-> 0, secs_to_sync |-> -1]
IdleWr == [pc |-> "idle", c |-> [sentry |-> 0, nr_valid |-> 0, nr_padded |-> 0],
           i |-> 0, lun_lock |-> FALSE, yielded |-> FALSE]
IdleFw == [pc |-> "idle", nr_luns |-> 1, nr_ppas |-> 0, nr_valid |-> 0,
           comp_bits |-> {}, scanned |-> {}, failed |-> <<>>, recov |-> <<>>]
IdleCls == [rq |-> {}, written |-> {}, gc |-> [b \in BlockIds |-> 0],
            ended |-> [b \in BlockIds |-> 0],
            error |-> [b \in BlockIds |-> "none"]]
IdleRace == [blk |-> FreshBlk, inflight |-> <<>>, cpc |-> "idle", cbit |-> 0,
             mpc |-> "idle", mbit |-> 0, mend |-> 0, mdata |-> <<>>]
\* the metadata of a block the media manager holds: what its last user left
StaleMeta == [cur_sec |-> MaxDsecs, nr_invalid_secs |-> 1, status |-> "CLOSED",
              erased |-> FALSE]
IdlePool == [lock |-> "free", nr_elems |-> 0, list |-> <<>>, bit |-> FALSE,
             ppc |-> "scan", prblk |-> 0, rlpg |-> FALSE, gpc |-> "idle",
             grblk |-> 0, open_list |-> <<>>, free |-> BlockIds, bad |-> {},
             put |-> [b \in BlockIds |-> 0],
             meta |-> [b \in BlockIds |-> StaleMeta], got |-> <<>>,
             nil |-> {}, gc_mode |-> FALSE]
IdleGcw == [pc |-> "idle", lba_list |-> <<>>, nr_rec_secs |-> 0, i |-> 0,
            valid_secs |-> 0, pos |-> 0, ref |-> 0, ret |-> "none",
            wrote |-> <<>>, added |-> 0, mem0 |-> 0, sync0 |-> 0,
            gc_mode |-> FALSE]
IdleChk == [pc |-> "idle", nr_secs |-> 0, laddr |-> 0, n |-> 0]
IdleRd == [pc |-> "idle", lba |-> 0, ppa |-> PpaEmpty, lookup_cache |-> FALSE,
           cache_read_state |-> 0, acc |-> {}, fresh |-> TRUE, path |-> "none"]

\* pblk_emergency_gc_on: the mode pblk_emergency_gc_mode reports afterwards
pblk_emergency_gc_on == TRUE

\* ----------------------------------------------------------------- L2P map
\* pblk_page_invalidate: the sector an L2P entry leaves is marked invalid
pblk_page_invalidate(B, gp) ==
    IF gp.rblk = 0 THEN B
    ELSE [B EXCEPT ![gp.rblk].nr_invalid_secs = @ + 1,
                   ![gp.rblk].invalid_bitmap = @ \cup {gp.ppa.s}]

\* pblk_update_map returns non-zero (conflict) while the entry is a pinned
\* cacheline
UpdateMapConflict(tm, lba) ==
    nvm_addr_in_cache(tm[lba].ppa) /\ tm[lba].rc = 1

UpdateMapTm(tm, lba, rblk, ppa) ==
    [tm EXCEPT ![lba] = [ppa |-> ppa, rc |-> 0, rblk |-> rblk]]

\* the value a read returns for an LBA whose latest operation wrote `d`
Norm(d) == IF d[1] = 0 THEN NoData ELSE d

\* a publication or discard of `lba` widens what a read of it, already past
\* its lookup, may return
Concurrent(R, lba, d) ==
    [r \in Readers |->
        IF R[r].pc = "pinned" /\ R[r].lba = lba
        THEN [R[r] EXCEPT !.acc = @ \cup {Norm(d)}] ELSE R[r]]

\* ------------------------------------------------------------------- ring
\* pblk_rb_may_write: nr slots can be reserved at mem
pblk_rb_may_write(nr) == mem + nr - sync <= RingSize

\* the entries before this position are written and published in the L2P map
PublishedLimit ==
    LET S == {sub[t].pos + sub[t].i :
                 t \in {u \in Submitters : sub[u].pc \in {"entry", "map"}}}
             \cup (IF gcw.pc \in {"entry", "map"}
                   THEN {gcw.pos + gcw.valid_secs} ELSE {})
    IN  IF S = {} THEN mem ELSE CHOOSE x \in S : \A y \in S : x <= y

\* pblk_rb_read_lock: entries available to the media writer
pblk_rb_read_lock == PublishedLimit - subm

\* pblk_rb_count: entries between subm and mem
pblk_rb_count == mem - subm

\* pblk_rb_sync_point_count: entries before the pending sync-point
pblk_rb_sync_point_count ==
    IF sync_point < subm THEN 0 ELSE sync_point + 1 - subm

\* ---------------------------------------------------------- backpressure
\* atomic_inc_below: [ok, v] for the counter value v
atomic_inc_below(v, below, inc) ==
    IF v >= below THEN [ok |-> FALSE, v |-> v]
    ELSE [ok |-> TRUE, v |-> v + inc]

__pblk_may_submit_write(v, nr_secs) == atomic_inc_below(v, InflightCap, nr_secs)

\* -------------------------------------------------------- write admission
\* the bio a ring entry of this admission carries (pblk_write_to_cache)
CtxBio(s) == IF s.flush THEN s.bio ELSE 0

\* variant: every sector of an admission is published at the first slot
AdmitCachelineBase(pos, i) == pblk_cacheline_to_ppa(pblk_rb_wrap_pos(pos))

\* the cacheline published for sector i of an admission at pos
AdmitCacheline(pos, i) == pblk_cacheline_to_ppa(pblk_rb_wrap_pos(pos + i))

\* variant: user writes are admitted in emergency-GC mode too
MayAdmitAlways(gc_mode) == TRUE

\* the test at the retry label of pblk_buffer_write: a bio with data goes on
\* to pblk_write_to_cache only outside emergency-GC mode
MayAdmit(gc_mode) == ~gc_mode

\* variant: pblk_write_to_cache goes on without asking the ring for room
WriteToCacheReservesAny(nr_entries) == TRUE

\* pblk_write_to_cache reserves its slots with pblk_rb_may_write, and reports
\* NVM_IO_REQUEUE when that fails
WriteToCacheReserves(nr_entries) == pblk_rb_may_write(nr_entries)

\* the value pblk_write_to_cache returns once the slots are reserved
WriteToCacheRet(preflush) == IF preflush THEN "OK" ELSE "DONE"

\* pblk_buffer_write up to the reservation in pblk_write_to_cache: a bio with
\* data (REQUEUE is retried inside the function until the ring has room)
BufferWriteOf(t, Preflush) ==
    /\ sub[t].pc = "idle" /\ ~teardown /\ nbio < MaxBios
    /\ MayAdmit(emergency_gc)
    /\ \E lba \in LBAs, n \in 1 .. MaxSecs, fl \in Preflush :
          /\ lba + n <= NrLBAs
          /\ WriteToCacheReserves(n)
          /\ mem' = mem + n
          /\ nbio' = nbio + 1
          /\ sub' = [sub EXCEPT ![t] =
                        [pc |-> "entry", bio |-> nbio + 1, lba |-> lba,
                         n |-> n, i |-> 0, pos |-> mem, flush |-> fl]]
          /\ bio_upto' = IF fl THEN [bio_upto EXCEPT ![nbio + 1] = mem + n]
                          ELSE bio_upto
          /\ ret' = [ret EXCEPT ![nbio + 1] = WriteToCacheRet(fl)]
    /\ UNCHANGED <<pool, gcw, chk,
                   min_write_pgs, max_write_pgs, trans_map, rb, subm, sync,
                   sync_point, compl_list, inflight_rqs, write_inflight, blks,
                   cur, prov_q, next_blk, media, rd, teardown, last, acks,
                   loc, drained, srd, emergency_gc, pad, calc, wr,
                   fw, cls, race>>

\* a write bio with or without REQ_PREFLUSH
BufferWrite(t) == BufferWriteOf(t, BOOLEAN)

\* a write bio without REQ_PREFLUSH
BufferWritePlain(t) == BufferWriteOf(t, {FALSE})

\* pblk_buffer_write of a bio with data in emergency-GC mode: NVM_IO_REQUEUE
\* is returned at the retry label, before pblk_write_to_cache is called
BufferWriteRequeue(t) ==
    /\ sub[t].pc \in {"idle", "retry"} /\ ~teardown
    /\ ~MayAdmit(emergency_gc)
    /\ IF sub[t].pc = "idle"
       THEN /\ nbio < MaxBios
            /\ nbio' = nbio + 1
            /\ ret' = [ret EXCEPT ![nbio + 1] = "REQUEUE"]
            /\ sub' = sub
       ELSE /\ nbio' = nbio
            /\ ret' = [ret EXCEPT ![sub[t].bio] = "REQUEUE"]
            /\ sub' = [sub EXCEPT ![t] = IdleSub]
    /\ UNCHANGED <<pool, gcw, chk,
                   min_write_pgs, max_write_pgs, trans_map, rb, mem, subm,
                   sync, sync_point, compl_list, inflight_rqs, write_inflight,
                   blks, cur, prov_q, next_blk, media, rd, teardown, last,
                   acks, bio_upto, loc, drained, srd, emergency_gc, pad,
                   calc, wr, fw, cls, race>>

\* pblk_buffer_write of a bio with data when pblk_write_to_cache finds no room
\* in the ring: its NVM_IO_REQUEUE sends the function back to its retry label
BufferWriteWait(t) ==
    /\ sub[t].pc = "idle" /\ ~teardown /\ nbio < MaxBios
    /\ MayAdmit(emergency_gc)
    /\ \E lba \in LBAs, n \in 1 .. MaxSecs, fl \in BOOLEAN :
          /\ lba + n <= NrLBAs
          /\ ~WriteToCacheReserves(n)
          /\ nbio' = nbio + 1
          /\ sub' = [sub EXCEPT ![t] =
                        [pc |-> "retry", bio |-> nbio + 1, lba |-> lba,
                         n |-> n, i |-> 0, pos |-> 0, flush |-> fl]]
    /\ UNCHANGED <<pool, gcw, chk,
                   min_write_pgs, max_write_pgs, trans_map, rb, mem, subm,
                   sync, sync_point, compl_list, inflight_rqs, write_inflight,
                   blks, cur, prov_q, next_blk, media, rd, teardown, last,
                   acks, bio_upto, loc, drained, srd, emergency_gc, ret, pad,
                   calc, wr, fw, cls, race>>

\* the next pass through the retry label that finds room in the ring
BufferWriteRetry(t) ==
    LET s == sub[t]
    IN  /\ s.pc = "retry"
        /\ MayAdmit(emergency_gc)
        /\ WriteToCacheReserves(s.n)
        /\ mem' = mem + s.n
        /\ sub' = [sub EXCEPT ![t].pc = "entry", ![t].pos = mem]
        /\ bio_upto' = IF s.flush THEN [bio_upto EXCEPT ![s.bio] = mem + s.n]
                       ELSE bio_upto
        /\ ret' = [ret EXCEPT ![s.bio] = WriteToCacheRet(s.flush)]
        /\ UNCHANGED <<pool, gcw, chk,
                       min_write_pgs, max_write_pgs, trans_map, rb, subm,
                       sync, sync_point, compl_list, inflight_rqs,
                       write_inflight, blks, cur, prov_q, next_blk, media, rd,
                       nbio, teardown, last, acks, loc, drained, srd,
                       emergency_gc, pad, calc, wr, fw, cls, race>>

\* pblk_rb_write_entry for sector i: payload and context into the slot
WriteEntry(t) ==
    LET s == sub[t]
        slot == pblk_rb_wrap_pos(s.pos + s.i)
    IN  /\ s.pc = "entry"
        /\ rb' = [rb EXCEPT ![slot] =
                     [lba |-> s.lba + s.i, bio |-> CtxBio(s),
                      data |-> Payload(s.bio, s.i), paddr |-> 0, rblk |-> 0]]
        /\ sync_point' = IF CtxBio(s) # 0 THEN s.pos + s.i ELSE sync_point
        /\ sub' = [sub EXCEPT ![t].pc = "map"]
        /\ UNCHANGED <<pool, gcw, chk,
                       min_write_pgs, max_write_pgs, trans_map, mem, subm,
                       sync, compl_list, inflight_rqs, write_inflight, blks,
                       cur, prov_q, next_blk, media, rd, nbio, teardown, last,
                       acks, bio_upto, loc, drained,
                   srd, emergency_gc, ret, pad, calc, wr, fw, cls, race>>

\* pblk_update_map for sector i, retried while it reports a conflict
UpdateMap(t) ==
    LET s == sub[t]
        lba == s.lba + s.i
    IN  /\ s.pc = "map"
        /\ ~UpdateMapConflict(trans_map, lba)
        /\ blks' = pblk_page_invalidate(blks, trans_map[lba])
        /\ trans_map' = UpdateMapTm(trans_map, lba, 0, AdmitCacheline(s.pos, s.i))
        /\ last' = [last EXCEPT ![lba] = Payload(s.bio, s.i)]
        /\ rd' = Concurrent(rd, lba, Payload(s.bio, s.i))
        /\ sub' = [sub EXCEPT ![t].i = s.i + 1,
                              ![t].pc = IF s.i + 1 < s.n THEN "entry"
                                        ELSE "inflight"]
        /\ UNCHANGED <<pool, gcw, chk,
                       min_write_pgs, max_write_pgs, rb, mem, subm, sync,
                       sync_point, compl_list, inflight_rqs, write_inflight,
                       cur, prov_q, next_blk, media, nbio, teardown, acks,
                       bio_upto, loc, drained,
                   srd, emergency_gc, ret, pad, calc, wr, fw, cls, race>>

\* pblk_may_submit_write: account the sectors, sleeping while over the cap
MaySubmitWrite(t) ==
    LET r == __pblk_may_submit_write(write_inflight, sub[t].n)
    IN  /\ sub[t].pc = "inflight"
        /\ r.ok
        /\ write_inflight' = r.v
        /\ sub' = [sub EXCEPT ![t] = IdleSub]
        /\ UNCHANGED <<pool, gcw, chk,
                       min_write_pgs, max_write_pgs, trans_map, rb, mem, subm,
                       sync, sync_point, compl_list, inflight_rqs, blks, cur,
                       prov_q, next_blk, media, rd, nbio, teardown, last,
                       acks, bio_upto, loc, drained,
                   srd, emergency_gc, ret, pad, calc, wr, fw, cls, race>>

\* pblk_buffer_write of a preflush bio without data: pblk_rb_sync_point_set
\* plants the bio on the last admitted entry, or reports nothing to flush
FlushNoData(t) ==
    /\ sub[t].pc = "idle" /\ ~teardown /\ nbio < MaxBios
    /\ nbio' = nbio + 1
    /\ IF mem = sync
       THEN /\ ret' = [ret EXCEPT ![nbio + 1] = "DONE"]
            /\ UNCHANGED <<rb, sync_point, bio_upto>>
       ELSE LET slot == pblk_rb_wrap_pos(mem - 1)
            IN  /\ PublishedLimit = mem
                /\ rb[slot].bio = 0
                /\ rb' = [rb EXCEPT ![slot].bio = nbio + 1]
                /\ sync_point' = mem - 1
                /\ bio_upto' = [bio_upto EXCEPT ![nbio + 1] = mem]
                /\ ret' = [ret EXCEPT ![nbio + 1] = "OK"]
    /\ UNCHANGED <<pool, gcw, chk,
                   min_write_pgs, max_write_pgs, trans_map, mem, subm, sync,
                   compl_list, inflight_rqs, write_inflight, blks, cur,
                   prov_q, next_blk, media, sub, rd, teardown, last, acks,
                   loc, drained, srd, emergency_gc, pad, calc, wr,
                   fw, cls, race>>

\* ------------------------------------------------------ blocks and mapper
bitmap_full(bm) == \A x \in 0 .. (nr_blk_dsecs - 1) : x \in bm

block_is_full(b) == b.cur_sec >= nr_blk_dsecs

\* pblk_run_blk_ws(pblk, rblk, pblk_close_blk): the block is closed and
\* leaves the LUN's open list
CloseBlk(b) == [b EXCEPT !.closes = @ + 1, !.open = FALSE]

\* variant: only the first sector of the page is set in sector_bitmap
pblk_next_base_sec_one(b, nr_secs) ==
    [b EXCEPT !.sector_bitmap = @ \cup {b.cur_sec},
              !.cur_sec = @ + nr_secs]

\* variant: the sectors are marked allocated and cur_sec stays where it was
pblk_next_base_sec_stay(b, nr_secs) ==
    [b EXCEPT !.sector_bitmap = @ \cup (b.cur_sec .. (b.cur_sec + nr_secs - 1))]

\* pblk_next_base_sec: nr_secs sectors allocated at cur_sec
pblk_next_base_sec(b, nr_secs) ==
    [b EXCEPT !.sector_bitmap = @ \cup (b.cur_sec .. (b.cur_sec + nr_secs - 1)),
              !.cur_sec = @ + nr_secs]

\* variant: a padding sector is marked invalid and left unsynced
pblk_page_pad_invalidate_unsynced(b, paddr) ==
    [b EXCEPT !.nr_invalid_secs = @ + 1,
              !.invalid_bitmap = @ \cup {paddr}]

\* pblk_page_pad_invalidate: a padding sector is invalid and synced at once
pblk_page_pad_invalidate(b, paddr) ==
    LET b1 == [b EXCEPT !.nr_invalid_secs = @ + 1,
                        !.invalid_bitmap = @ \cup {paddr},
                        !.sync_bitmap = @ \cup {paddr}]
    IN  IF bitmap_full(b1.sync_bitmap) THEN CloseBlk(b1) ELSE b1

\* pblk_sync_buffer: the device acknowledged sector block_ppa of rblk
pblk_sync_buffer(b, block_ppa) ==
    LET b1 == [b EXCEPT !.sync_bitmap = @ \cup {block_ppa}]
    IN  IF bitmap_full(b1.sync_bitmap) THEN CloseBlk(b1) ELSE b1

\* the loop of pblk_map_page over the sectors of one page; M is the mapper's
\* view [blks, rb, cur, q, loc, ok]
RECURSIVE MapSecs(_, _, _, _, _, _, _)
MapSecs(M, b, sentry, base, i, nr_secs, valid_secs) ==
    IF i >= nr_secs THEN M
    ELSE LET paddr == base + i
             slot == pblk_rb_wrap_pos(sentry + i)
         IN  IF i < valid_secs
             THEN MapSecs([M EXCEPT !.rb[slot].paddr = paddr,
                                    !.rb[slot].rblk = b,
                                    !.blks[b].lba_list[paddr] =
                                        M.rb[slot].lba,
                                    !.blks[b].nr_lbas = @ + 1,
                                    !.loc[sentry + i] = <<b, paddr>>],
                          b, sentry, base, i + 1, nr_secs, valid_secs)
             ELSE MapSecs([M EXCEPT !.blks[b] =
                              [pblk_page_pad_invalidate(@, paddr)
                                  EXCEPT !.lba_list[paddr] = ADDR_EMPTY,
                                         !.nr_padded = @ + 1]],
                          b, sentry, base, i + 1, nr_secs, valid_secs)

\* pblk_map_page: a page of min_write_pgs sectors is allocated in rblk
\* (pblk_alloc_page) and its nr_secs sectors are bound
pblk_map_page(M, b, sentry, nr_secs, valid_secs) ==
    IF block_is_full(M.blks[b]) THEN [M EXCEPT !.ok = FALSE]
    ELSE MapSecs([M EXCEPT !.blks[b] = pblk_next_base_sec(@, min_write_pgs)],
                 b, sentry, M.blks[b].cur_sec, 0, nr_secs, valid_secs)

\* variant: only a full current block is replaced, a bad one is written on
pblk_map_rr_page_full_only(M, sentry, nr_secs, valid_secs) ==
    IF block_is_full(M.blks[M.cur])
    THEN IF M.q = <<>> THEN [M EXCEPT !.ok = FALSE]
         ELSE pblk_map_page([M EXCEPT !.cur = Head(M.q), !.q = Tail(M.q),
                                      !.blks[Head(M.q)].open = TRUE],
                            Head(M.q), sentry, nr_secs, valid_secs)
    ELSE pblk_map_page(M, M.cur, sentry, nr_secs, valid_secs)

\* pblk_map_rr_page: the LUN's current block, replaced from the pre-erased
\* queue when it is full or bad (ok = FALSE: the queue is empty, the mapper
\* yields and retries)
pblk_map_rr_page(M, sentry, nr_secs, valid_secs) ==
    IF block_is_full(M.blks[M.cur]) \/ M.blks[M.cur].bad
    THEN IF M.q = <<>> THEN [M EXCEPT !.ok = FALSE]
         ELSE pblk_map_page([M EXCEPT !.cur = Head(M.q), !.q = Tail(M.q),
                                      !.blks[Head(M.q)].open = TRUE],
                            Head(M.q), sentry, nr_secs, valid_secs)
    ELSE pblk_map_page(M, M.cur, sentry, nr_secs, valid_secs)

\* the number of data sectors pblk_setup_w_rq passes for the group at i
SetupSecs(i, valid_secs) ==
    IF i + min_write_pgs > valid_secs THEN valid_secs % min_write_pgs
    ELSE min_write_pgs

RECURSIVE SetupGroups(_, _, _, _, _)
SetupGroups(M, sentry, i, nr_secs, valid_secs) ==
    IF i >= nr_secs \/ ~M.ok THEN M
    ELSE SetupGroups(pblk_map_rr_page(M, sentry + i, min_write_pgs,
                                      SetupSecs(i, valid_secs)),
                     sentry, i + min_write_pgs, nr_secs, valid_secs)

\* pblk_setup_w_rq: the request's sectors are mapped page by page
pblk_setup_w_rq(M, c_ctx) ==
    LET nr_secs == c_ctx.nr_valid + c_ctx.nr_padded
    IN  IF nr_secs = 1
        THEN pblk_map_rr_page(M, c_ctx.sentry, 1, 1)
        ELSE SetupGroups(M, c_ctx.sentry, 0, nr_secs, c_ctx.nr_valid)

\* pblk_block_pool_provision: a block is acquired for the LUN while its queue
\* is below the target depth
block_pool_qd == 1

Provision ==
    /\ Len(prov_q) < block_pool_qd
    /\ next_blk <= NrBlks
    /\ prov_q' = Append(prov_q, next_blk)
    /\ next_blk' = next_blk + 1
    /\ UNCHANGED <<pool, gcw, chk,
                   min_write_pgs, max_write_pgs, trans_map, rb, mem, subm,
                   sync, sync_point, compl_list, inflight_rqs, write_inflight,
                   blks, cur, media, sub, rd, nbio, teardown, last, acks,
                   bio_upto, loc, drained,
                   srd, emergency_gc, ret, pad, calc, wr, fw, cls, race>>

\* lun->nr_free_blocks: blocks the media manager has not handed out
nr_free_blocks == NrBlks - next_blk + 1

\* pblk_block_pool_provision with a non-zero gc_ths.emergency: a LUN whose
\* free blocks fell below the threshold is put in emergency-GC mode, and gets
\* its block on a later pass
ProvisionGc ==
    /\ Len(prov_q) < block_pool_qd
    /\ IF ~emergency_gc /\ nr_free_blocks < gc_ths_emergency
       THEN /\ emergency_gc' = pblk_emergency_gc_on
            /\ UNCHANGED <<prov_q, next_blk>>
       ELSE /\ next_blk <= NrBlks
            /\ prov_q' = Append(prov_q, next_blk)
            /\ next_blk' = next_blk + 1
            /\ UNCHANGED emergency_gc
    /\ UNCHANGED <<pool, gcw, chk,
                   min_write_pgs, max_write_pgs, trans_map, rb, mem, subm,
                   sync, sync_point, compl_list, inflight_rqs, write_inflight,
                   blks, cur, media, sub, rd, nbio, teardown, last, acks,
                   bio_upto, loc, drained, srd, ret, pad, calc, wr,
                   fw, cls, race>>

\* ------------------------------------------------------------ media writer
\* variant: the flush branch does not grow its first value
GrowSyncNone(secs_to_sync, secs_avail) == secs_to_sync

\* the while loop of pblk_calc_secs_to_sync
RECURSIVE GrowSync(_, _)
GrowSync(secs_to_sync, secs_avail) ==
    LET inc == secs_to_sync + min_write_pgs
    IN  IF inc <= secs_avail /\ inc <= max_write_pgs
        THEN GrowSync(inc, secs_avail) ELSE secs_to_sync

pblk_calc_secs_to_sync(secs_avail, secs_to_flush) ==
    IF secs_avail >= max_write_pgs \/ secs_to_flush >= max_write_pgs
    THEN max_write_pgs
    ELSE IF secs_avail >= min_write_pgs
         THEN IF secs_to_flush > 0
              THEN GrowSync(min_write_pgs * (secs_to_flush \div min_write_pgs),
                            secs_avail)
              ELSE min_write_pgs * (secs_avail \div min_write_pgs)
         ELSE IF secs_to_flush > 0 THEN min_write_pgs ELSE 0

\* one call of pblk_calc_secs_to_sync with the arguments drawn at the start
CalcSecsToSync ==
    /\ calc.secs_to_sync = -1
    /\ calc' = [calc EXCEPT !.secs_to_sync =
                    pblk_calc_secs_to_sync(calc.secs_avail,
                                           calc.secs_to_flush)]
    /\ UNCHANGED <<pool, gcw, chk,
                   min_write_pgs, max_write_pgs, trans_map, rb, mem, subm,
                   sync, sync_point, compl_list, inflight_rqs, write_inflight,
                   blks, cur, prov_q, next_blk, media, sub, rd, nbio,
                   teardown, last, acks, bio_upto, loc, drained, srd,
                   emergency_gc, ret, pad, wr, fw, cls, race>>

\* variant: the writer commits secs_to_sync entries, padding included
WriterCtxAll ==
    [sentry |-> subm,
     nr_valid |-> pblk_calc_secs_to_sync(pblk_rb_read_lock,
                                         pblk_rb_sync_point_count),
     nr_padded |-> 0]

\* the request context pblk_submit_write builds: entries committed from subm
\* and the padding up to secs_to_sync
WriterCtx ==
    LET secs_avail == pblk_rb_read_lock
        secs_to_sync == pblk_calc_secs_to_sync(secs_avail,
                                               pblk_rb_sync_point_count)
        secs_to_com == Min(secs_to_sync, secs_avail)
    IN  [sentry |-> subm, nr_valid |-> secs_to_com,
         nr_padded |-> secs_to_sync - secs_to_com]

\* variant: the pre-check ignores a pending sync-point
WriterRunsFull ==
    /\ pblk_rb_count >= max_write_pgs
    /\ pblk_rb_read_lock > 0
    /\ WriterCtx.nr_valid > 0

\* the pre-check and the early returns of pblk_submit_write
WriterRuns ==
    /\ ~(pblk_rb_sync_point_count = 0 /\ pblk_rb_count < max_write_pgs)
    /\ pblk_rb_read_lock > 0
    /\ WriterCtx.nr_valid > 0

\* pblk_rb_sync_point_reset: the barrier is cleared once the writer consumed it
SyncPointAfter(c) ==
    IF /\ pblk_rb_sync_point_count <= c.nr_valid + c.nr_padded
       /\ sync_point >= c.sentry /\ sync_point < c.sentry + c.nr_valid
    THEN -1 ELSE sync_point

\* pblk_submit_write: one run of the media writer that reaches nvm_submit_io
SubmitWrite ==
    LET c == WriterCtx
        M == pblk_setup_w_rq([blks |-> blks, rb |-> rb, cur |-> cur,
                              q |-> prov_q, loc |-> loc, ok |-> TRUE], c)
    IN  /\ WriterRuns
        /\ M.ok
        /\ subm' = subm + c.nr_valid
        /\ sync_point' = SyncPointAfter(c)
        /\ blks' = M.blks /\ rb' = M.rb /\ cur' = M.cur /\ prov_q' = M.q
        /\ loc' = M.loc
        /\ inflight_rqs' = inflight_rqs \cup {c}
        /\ UNCHANGED <<pool, gcw, chk,
                       min_write_pgs, max_write_pgs, trans_map, mem, sync,
                       compl_list, write_inflight, next_blk, media, sub, rd,
                       nbio, teardown, last, acks, bio_upto, drained,
                   srd, emergency_gc, ret, pad, calc, wr, fw, cls, race>>

\* ------------------------------------------------------------- completion
\* the loop of pblk_end_w_bio over the request's entries: the sector is
\* synced in its block and an attached bio is ended; S is the completion's
\* view [rb, blks, tm, acks, sync, cl, blocked], bound once per iteration
RECURSIVE EndEntries(_, _, _, _)
EndEntries(view, sentry, i, nr_entries) ==
    CHOOSE r \in {
        IF i >= nr_entries THEN S
        ELSE LET pos == sentry + i
                 slot == pblk_rb_wrap_pos(pos)
                 w == S.rb[slot]
             IN  EndEntries(
                     [S EXCEPT !.blks[w.rblk] = pblk_sync_buffer(@, w.paddr),
                               !.acks = IF w.bio # 0
                                        THEN @ \cup {[bio |-> w.bio,
                                                      pos |-> pos]}
                                        ELSE @,
                               !.rb[slot].bio = 0],
                     sentry, i + 1, nr_entries)
        : S \in {view}} : TRUE

\* pblk_rb_sync_advance: sync moves past nr_entries entries; an LBA still
\* bound to a retired cacheline is re-bound to the sector on the device
\* (blocked while that cacheline is pinned by a reader)
RECURSIVE RetireL2P(_, _, _, _)
RetireL2P(view, sentry, i, nr_entries) ==
    CHOOSE r \in {
        IF i >= nr_entries THEN S
        ELSE LET slot == pblk_rb_wrap_pos(sentry + i)
                 w == S.rb[slot]
             IN  IF S.tm[w.lba].ppa # pblk_cacheline_to_ppa(slot)
                 THEN RetireL2P(S, sentry, i + 1, nr_entries)
                 ELSE IF UpdateMapConflict(S.tm, w.lba)
                 THEN [S EXCEPT !.blocked = TRUE]
                 ELSE RetireL2P(
                          [S EXCEPT !.tm = UpdateMapTm(@, w.lba, w.rblk,
                                                       DevPpa(w.rblk,
                                                              w.paddr))],
                          sentry, i + 1, nr_entries)
        : S \in {view}} : TRUE

pblk_rb_sync_advance(S, sentry, nr_entries) ==
    [RetireL2P(S, sentry, 0, nr_entries) EXCEPT !.sync = @ + nr_entries]

\* pblk_end_w_bio
pblk_end_w_bio(S, c_ctx) ==
    pblk_rb_sync_advance(EndEntries(S, c_ctx.sentry, 0, c_ctx.nr_valid),
                         c_ctx.sentry, c_ctx.nr_valid)

Remove(L, k) == SubSeq(L, 1, k - 1) \o SubSeq(L, k + 1, Len(L))

\* the retry loop of pblk_compl_queue over compl_list
RECURSIVE DrainComplList(_)
DrainComplList(view) ==
    CHOOSE r \in {
        LET idx == {k \in 1 .. Len(S.cl) : S.cl[k].sentry = S.sync}
        IN  IF idx = {} THEN S
            ELSE LET k == CHOOSE x \in idx : \A y \in idx : x <= y
                 IN  DrainComplList(
                         pblk_end_w_bio([S EXCEPT !.cl = Remove(S.cl, k)],
                                        S.cl[k]))
        : S \in {view}} : TRUE

\* variant: a completed request is retired whatever its position
RetiresAnyOrder(c_ctx, pos) == TRUE

\* whether pblk_compl_queue retires the completed request now
RetiresNow(c_ctx, pos) == c_ctx.sentry = pos

\* pblk_compl_queue below the inflight release: retire in ring order, or park
pblk_compl_queue(S, c_ctx) ==
    IF RetiresNow(c_ctx, S.sync)
    THEN DrainComplList(pblk_end_w_bio(S, c_ctx))
    ELSE [S EXCEPT !.cl = Append(@, c_ctx)]

\* what the device holds after it wrote the request's data sectors
RECURSIVE MediaWrite(_, _, _)
MediaWrite(m, c, i) ==
    IF i >= c.nr_valid THEN m
    ELSE LET w == rb[pblk_rb_wrap_pos(c.sentry + i)]
         IN  MediaWrite([m EXCEPT ![<<w.rblk, w.paddr>>] = w.data], c, i + 1)

\* variant: a completion leaves write_inflight alone
InflightKept(v, c_ctx) == v

\* the inflight release at the head of pblk_compl_queue
InflightAfter(v, c_ctx) == v - c_ctx.nr_valid

\* pblk_end_io_write of a successful data write: the device completes any
\* submitted request, in any order
CompleteWrite(c) ==
    LET S == pblk_compl_queue([rb |-> rb, blks |-> blks, tm |-> trans_map,
                               acks |-> acks, sync |-> sync, cl |-> compl_list,
                               blocked |-> FALSE], c)
    IN  /\ c \in inflight_rqs
        /\ ~S.blocked
        /\ inflight_rqs' = inflight_rqs \ {c}
        /\ media' = MediaWrite(media, c, 0)
        /\ write_inflight' = InflightAfter(write_inflight, c)
        /\ rb' = S.rb /\ blks' = S.blks /\ trans_map' = S.tm
        /\ acks' = S.acks /\ sync' = S.sync /\ compl_list' = S.cl
        /\ drained' = (drained \/ Len(S.cl) < Len(compl_list))
        /\ UNCHANGED <<pool, gcw, chk,
                       min_write_pgs, max_write_pgs, mem, subm, sync_point,
                       cur, prov_q, next_blk, sub, rd, nbio, teardown, last,
                       bio_upto, loc, srd, emergency_gc, ret, pad, calc, wr,
                       fw, cls, race>>

\* -------------------------------------------------------------- read path
\* pblk_read_rq under trans_lock: the entry is copied and, if it is a
\* cacheline, pinned (each reader reads once; the readers being alike, the
\* higher-numbered one starts after the lower-numbered one)
ReadLookup(r) ==
    /\ rd[r].pc = "idle"
    /\ \A q \in Readers : q < r => rd[q].pc # "idle"
    /\ \E lba \in LBAs :
          LET gp == trans_map[lba]
              c == nvm_addr_in_cache(gp.ppa)
          IN  /\ rd' = [rd EXCEPT ![r] =
                           [pc |-> "pinned", lba |-> lba, ppa |-> gp.ppa,
                            lookup_cache |-> c,
                            cache_read_state |-> IF c THEN gp.rc ELSE 0,
                            acc |-> {Norm(last[lba])}, fresh |-> TRUE,
                            path |-> "none"]]
              /\ trans_map' = IF c THEN [trans_map EXCEPT ![lba].rc = 1]
                              ELSE trans_map
    /\ UNCHANGED <<pool, gcw, chk,
                   min_write_pgs, max_write_pgs, rb, mem, subm, sync,
                   sync_point, compl_list, inflight_rqs, write_inflight, blks,
                   cur, prov_q, next_blk, media, sub, nbio, teardown, last,
                   acks, bio_upto, loc, drained,
                   srd, emergency_gc, ret, pad, calc, wr, fw, cls, race>>

\* the read-pin bit pblk_read_rq leaves on the entry at its unlock label
UnlockBit(cache_read_state) == 0

\* pblk_read_rq past the lookup: the sector is served as empty, copied from the
\* cacheline or read from the device, and the pin is released
ReadFinish(r) ==
    LET s == rd[r]
        res == IF ppa_empty(s.ppa) THEN NoData
               ELSE IF nvm_addr_in_cache(s.ppa) THEN rb[s.ppa.a].data
               ELSE media[<<s.ppa.a, s.ppa.s>>]
    IN  /\ s.pc = "pinned"
        /\ rd' = [rd EXCEPT ![r] = [IdleRd EXCEPT !.pc = "done",
                                                   !.fresh = (res \in s.acc),
                                                   !.path = s.ppa.t]]
        /\ trans_map' = IF s.lookup_cache
                        THEN [trans_map EXCEPT ![s.lba].rc =
                                 UnlockBit(s.cache_read_state)]
                        ELSE trans_map
        /\ UNCHANGED <<pool, gcw, chk,
                       min_write_pgs, max_write_pgs, rb, mem, subm, sync,
                       sync_point, compl_list, inflight_rqs, write_inflight,
                       blks, cur, prov_q, next_blk, media, sub, nbio, teardown,
                       last, acks, bio_upto, loc, drained,
                   srd, emergency_gc, ret, pad, calc, wr, fw, cls, race>>

\* pblk_setup_seq_reads under trans_lock: every entry of the range is copied
\* and, if it is a cacheline, pinned; the value returned is the result of
\* pblk_lock_read for the last sector
SeqLocked(ppas) == IF nvm_addr_in_cache(ppas[SeqSecs - 1]) THEN 1 ELSE 0

pblk_setup_seq_reads(tm, bladdr) ==
    [l \in LBAs |->
        IF l - bladdr \in SeqIdx /\ nvm_addr_in_cache(tm[l].ppa)
        THEN [tm[l] EXCEPT !.rc = 1] ELSE tm[l]]

\* pblk_unlock_seq_reads: pblk_unlock_read on every entry of the range
pblk_unlock_seq_reads(tm, bladdr) ==
    [l \in LBAs |->
        IF l - bladdr \in SeqIdx /\ nvm_addr_in_cache(tm[l].ppa)
        THEN [tm[l] EXCEPT !.rc = 0] ELSE tm[l]]

\* pblk_read_ppalist_rq up to the return of pblk_setup_seq_reads
SeqReadLookup ==
    /\ srd.pc = "idle"
    /\ \E laddr \in LBAs :
          LET ppas == [i \in SeqIdx |->
                          IF laddr + i \in LBAs THEN trans_map[laddr + i].ppa
                          ELSE PpaEmpty]
          IN  /\ laddr + SeqSecs < pblk_nr_secs
              /\ srd' = [IdleSrd EXCEPT
                            !.pc = "locked", !.lba = laddr, !.ppas = ppas,
                            !.locked = SeqLocked(ppas),
                            !.pre = [i \in SeqIdx |-> Norm(last[laddr + i])]]
              /\ trans_map' = pblk_setup_seq_reads(trans_map, laddr)
    /\ UNCHANGED <<pool, gcw, chk,
                   min_write_pgs, max_write_pgs, rb, mem, subm, sync,
                   sync_point, compl_list, inflight_rqs, write_inflight, blks,
                   cur, prov_q, next_blk, media, sub, rd, nbio, teardown, last,
                   acks, bio_upto, loc, drained, emergency_gc, ret, pad, calc, wr,
                   fw, cls, race>>

\* variant: an empty sector is put on the device list
RECURSIVE ReadPpalistLoopDev(_, _, _)
ReadPpalistLoopDev(ppas, R, i) ==
    IF i >= SeqSecs THEN R
    ELSE IF nvm_addr_in_cache(ppas[i])
    THEN ReadPpalistLoopDev(ppas, [R EXCEPT !.read_bitmap = @ \cup {i}],
                            i + 1)
    ELSE ReadPpalistLoopDev(ppas,
                            [R EXCEPT !.ppa_list = Append(@, ppas[i])], i + 1)

\* the classification loop of pblk_read_ppalist_rq from sector i on: an empty
\* or cached sector sets bit i of read_bitmap, any other address is stored at
\* ppa_list[j] and j advances; R is [read_bitmap, ppa_list]
RECURSIVE ReadPpalistLoop(_, _, _)
ReadPpalistLoop(ppas, R, i) ==
    IF i >= SeqSecs THEN R
    ELSE IF ppa_empty(ppas[i]) \/ nvm_addr_in_cache(ppas[i])
    THEN ReadPpalistLoop(ppas, [R EXCEPT !.read_bitmap = @ \cup {i}], i + 1)
    ELSE ReadPpalistLoop(ppas,
                         [R EXCEPT !.ppa_list = Append(@, ppas[i])], i + 1)

\* the rest of pblk_read_ppalist_rq and the dispatch of pblk_submit_read:
\* empty sectors and cachelines are served, the pins are released if `locked`,
\* and the bio is ended (all served), cloned and submitted (none served) or
\* handed to pblk_fill_partial_read_bio, which submits a secondary bio for
\* the holes and waits for it
SeqReadClassify ==
    LET R == ReadPpalistLoop(srd.ppas,
                             [read_bitmap |-> {}, ppa_list |-> <<>>], 0)
        read_bitmap == R.read_bitmap
        cached == {i \in SeqIdx : nvm_addr_in_cache(srd.ppas[i])}
        fresh == \A i \in cached : rb[srd.ppas[i].a].data = srd.pre[i]
    IN  /\ srd.pc = "locked"
        /\ trans_map' = IF srd.locked # 0
                        THEN pblk_unlock_seq_reads(trans_map, srd.lba)
                        ELSE trans_map
        /\ srd' = IF read_bitmap = SeqIdx
                  THEN [srd EXCEPT !.pc = "done", !.fresh = fresh,
                                   !.read_bitmap = read_bitmap,
                                   !.ppa_list = R.ppa_list,
                                   !.path = "cache", !.ended = @ + 1,
                                   !.ret = "OK"]
                  ELSE [srd EXCEPT !.pc = "dev", !.fresh = fresh,
                                   !.read_bitmap = read_bitmap,
                                   !.ppa_list = R.ppa_list,
                                   !.dev_reads = @ + 1,
                                   !.sync_reads =
                                       IF read_bitmap = {} THEN @ ELSE @ + 1,
                                   !.path = IF read_bitmap = {} THEN "clone"
                                            ELSE "partial"]
        /\ UNCHANGED <<pool, gcw, chk,
                       min_write_pgs, max_write_pgs, rb, mem, subm, sync,
                       sync_point, compl_list, inflight_rqs, write_inflight,
                       blks, cur, prov_q, next_blk, media, sub, rd, nbio,
                       teardown, last, acks, bio_upto, loc, drained,
                       emergency_gc, ret, pad, calc, wr, fw, cls, race>>

\* pblk_end_io_read for the cloned bio: the clone's error is logged, the clone
\* is dropped and the original bio is ended as it is
EndIoReadClone(s, error) ==
    [s EXCEPT !.pc = "done", !.dev_error = error, !.ended = @ + 1,
              !.ret = "OK"]

\* pblk_fill_partial_read_bio after wait_for_completion_io: a failed read of
\* the holes ends the secondary bio and returns NVM_IO_ERR; otherwise the
\* holes are filled and the original bio is ended
FillPartialReadBio(s, error) ==
    IF error
    THEN [s EXCEPT !.pc = "done", !.dev_error = TRUE, !.ret = "ERR"]
    ELSE [s EXCEPT !.pc = "done", !.ended = @ + 1, !.ret = "OK"]

\* the device completes the read of the sectors not served from the ring,
\* with or without an error
SeqReadComplete ==
    /\ srd.pc = "dev"
    /\ \E error \in BOOLEAN :
          srd' = IF srd.path = "clone" THEN EndIoReadClone(srd, error)
                 ELSE FillPartialReadBio(srd, error)
    /\ UNCHANGED <<pool, gcw, chk,
                   min_write_pgs, max_write_pgs, trans_map, rb, mem, subm,
                   sync, sync_point, compl_list, inflight_rqs, write_inflight,
                   blks, cur, prov_q, next_blk, media, sub, rd, nbio,
                   teardown, last, acks, bio_upto, loc, drained,
                   emergency_gc, ret, pad, calc, wr, fw, cls, race>>

\* ---------------------------------------------------------------- discard
\* variant: the entry is emptied but keeps its block
RECURSIVE pblk_invalidate_range_keep(_, _, _)
pblk_invalidate_range_keep(D, slba, nr_secs) ==
    IF nr_secs = 0 THEN D
    ELSE LET gp == D.tm[slba]
         IN  pblk_invalidate_range_keep(
                 [tm |-> [D.tm EXCEPT ![slba].ppa = PpaEmpty],
                  blks |-> IF gp.rblk # 0
                           THEN pblk_page_invalidate(D.blks, gp) ELSE D.blks],
                 slba + 1, nr_secs - 1)

\* pblk_invalidate_range over [slba, slba + nr_secs): D is [tm, blks]
RECURSIVE pblk_invalidate_range(_, _, _)
pblk_invalidate_range(D, slba, nr_secs) ==
    IF nr_secs = 0 THEN D
    ELSE LET gp == D.tm[slba]
         IN  pblk_invalidate_range(
                 [tm |-> [D.tm EXCEPT ![slba] =
                             [ppa |-> PpaEmpty, rc |-> 0, rblk |-> 0]],
                  blks |-> IF gp.rblk # 0
                           THEN pblk_page_invalidate(D.blks, gp) ELSE D.blks],
                 slba + 1, nr_secs - 1)

RECURSIVE DiscardSeen(_, _, _)
DiscardSeen(R, slba, nr_secs) ==
    IF nr_secs = 0 THEN R
    ELSE DiscardSeen(Concurrent(R, slba, Discarded), slba + 1, nr_secs - 1)

\* pblk_discard
Discard ==
    \E slba \in LBAs, nr_secs \in 1 .. NrLBAs :
        LET D == pblk_invalidate_range([tm |-> trans_map, blks |-> blks],
                                       slba, nr_secs)
        IN  /\ slba + nr_secs <= NrLBAs
            /\ ~teardown /\ nbio < MaxBios
            /\ nbio' = nbio + 1
            /\ trans_map' = D.tm /\ blks' = D.blks
            /\ last' = [l \in LBAs |->
                           IF l >= slba /\ l < slba + nr_secs
                           THEN IF trans_map[l].rblk # 0 THEN DiscardedDev
                                ELSE Discarded
                           ELSE last[l]]
            /\ rd' = DiscardSeen(rd, slba, nr_secs)
            /\ UNCHANGED <<pool, gcw, chk,
                           min_write_pgs, max_write_pgs, rb, mem, subm, sync,
                           sync_point, compl_list, inflight_rqs,
                           write_inflight, cur, prov_q, next_blk, media, sub,
                           teardown, acks, bio_upto, loc, drained,
                   srd, emergency_gc, ret, pad, calc, wr, fw, cls, race>>

\* --------------------------------------------------------------- teardown
\* pblk_nr_free_secs
pblk_nr_free_secs(b) == nr_blk_dsecs - Cardinality(b.sector_bitmap)

\* the loop of pblk_setup_pad_rq: every page of the pad request is mapped in
\* rblk with no data sector
RECURSIVE PadGroups(_, _, _, _)
PadGroups(M, b, i, nr_secs) ==
    IF i >= nr_secs \/ ~M.ok THEN M
    ELSE PadGroups(pblk_map_page(M, b, i, min_write_pgs, 0), b,
                   i + min_write_pgs, nr_secs)

pblk_setup_pad_rq(M, b, nr_secs) ==
    IF nr_secs = 1 THEN pblk_map_page(M, b, 0, 1, 0)
    ELSE PadGroups(M, b, 0, nr_secs)

\* the assertion of the single-sector path of pblk_setup_pad_rq:
\* BUG_ON(padded_secs != 0) for a request of one sector
PadSingleBug(nr_secs, padded_secs) == nr_secs = 1 /\ padded_secs # 0

\* pblk_pad_open_blks starts once the writer has been flushed
StartTeardown ==
    /\ ~teardown
    /\ \A t \in Submitters : sub[t].pc = "idle"
    /\ mem = sync /\ inflight_rqs = {} /\ compl_list = <<>>
    /\ teardown' = TRUE
    /\ pad' = [pad EXCEPT !.pc = "walk"]
    /\ UNCHANGED <<pool, gcw, chk,
                   min_write_pgs, max_write_pgs, trans_map, rb, mem, subm,
                   sync, sync_point, compl_list, inflight_rqs, write_inflight,
                   blks, cur, prov_q, next_blk, media, sub, rd, nbio, last,
                   acks, bio_upto, loc, drained, srd, emergency_gc, ret,
                   calc, wr, fw, cls, race>>

\* one iteration of the loop of pblk_pad_blk: a synchronous pad write of at
\* most max_write_pgs sectors, all of them padding (nr_padded = nr_secs). A
\* request of one sector stops at the assertion of the single-sector path
\* and the teardown thread dies. In this part of the model a block leaves
\* the open list as soon as its last sector is synced, so the loop is
\* entered with sectors left
PadBlk(b) ==
    LET nr_free_secs == pblk_nr_free_secs(blks[b])
        nr_secs == IF nr_free_secs > max_write_pgs THEN max_write_pgs
                   ELSE nr_free_secs
        M == pblk_setup_pad_rq([blks |-> blks, rb |-> rb, cur |-> cur,
                                q |-> prov_q, loc |-> loc, ok |-> TRUE],
                               b, nr_secs)
    IN  /\ teardown /\ pad.pc = "walk"
        /\ blks[b].open
        /\ b \notin pad.left
        /\ nr_free_secs % min_write_pgs = 0
        /\ nr_free_secs # nr_blk_dsecs
        /\ nr_free_secs > 0
        /\ IF PadSingleBug(nr_secs, nr_secs)
           THEN /\ pad' = [pad EXCEPT !.pc = "BUG"]
                /\ blks' = blks
           ELSE /\ M.ok
                /\ blks' = M.blks
                /\ pad' = pad
        /\ UNCHANGED <<pool, gcw, chk,
                       min_write_pgs, max_write_pgs, trans_map, rb, mem, subm,
                       sync, sync_point, compl_list, inflight_rqs,
                       write_inflight, cur, prov_q, next_blk, media, sub, rd,
                       nbio, teardown, last, acks, bio_upto, loc, drained,
                       srd, emergency_gc, ret, calc, wr, fw, cls, race>>

\* pblk_pad_open_blks on an empty open block: pblk_put_blk_unlocked
PutEmptyBlk(b) ==
    /\ teardown /\ pad.pc = "walk"
    /\ blks[b].open
    /\ pblk_nr_free_secs(blks[b]) = nr_blk_dsecs
    /\ blks' = [blks EXCEPT ![b].open = FALSE]
    /\ UNCHANGED <<pool, gcw, chk,
                   min_write_pgs, max_write_pgs, trans_map, rb, mem, subm,
                   sync, sync_point, compl_list, inflight_rqs, write_inflight,
                   cur, prov_q, next_blk, media, sub, rd, nbio, teardown,
                   last, acks, bio_upto, loc, drained,
                   srd, emergency_gc, ret, pad, calc, wr, fw, cls, race>>

\* one iteration of the loop of pblk_pad_blk that fails: the request or its
\* bio cannot be allocated ("alloc"), or nvm_submit_io reports an error after
\* the pad request has been mapped ("submit"); pblk_pad_blk returns and the
\* walk goes on to the next block
PadBlkFail(b) ==
    LET nr_free_secs == pblk_nr_free_secs(blks[b])
        nr_secs == IF nr_free_secs > max_write_pgs THEN max_write_pgs
                   ELSE nr_free_secs
        M == pblk_setup_pad_rq([blks |-> blks, rb |-> rb, cur |-> cur,
                                q |-> prov_q, loc |-> loc, ok |-> TRUE],
                               b, nr_secs)
    IN  /\ teardown /\ pad.pc = "walk"
        /\ blks[b].open
        /\ b \notin pad.left
        /\ nr_free_secs % min_write_pgs = 0
        /\ nr_free_secs # nr_blk_dsecs
        /\ nr_free_secs > 0
        /\ \E f \in {"alloc", "submit"} :
              /\ f = "submit" => ~PadSingleBug(nr_secs, nr_secs)
              /\ blks' = IF f = "submit" /\ M.ok THEN M.blks ELSE blks
        /\ pad' = [pad EXCEPT !.left = @ \cup {b}]
        /\ UNCHANGED <<pool, gcw, chk,
                       min_write_pgs, max_write_pgs, trans_map, rb, mem, subm,
                       sync, sync_point, compl_list, inflight_rqs,
                       write_inflight, cur, prov_q, next_blk, media, sub, rd,
                       nbio, teardown, last, acks, bio_upto, loc, drained,
                       srd, emergency_gc, ret, calc, wr, fw, cls, race>>

\* the wait loop that ends pblk_pad_open_blks: the function returns once the
\* open_list is empty
PadReturn ==
    /\ teardown /\ pad.pc = "walk"
    /\ \A b \in BlockIds : ~blks[b].open
    /\ pad' = [pad EXCEPT !.pc = "returned"]
    /\ UNCHANGED <<pool, gcw, chk,
                   min_write_pgs, max_write_pgs, trans_map, rb, mem, subm,
                   sync, sync_point, compl_list, inflight_rqs, write_inflight,
                   blks, cur, prov_q, next_blk, media, sub, rd, nbio,
                   teardown, last, acks, bio_upto, loc, drained, srd,
                   emergency_gc, ret, calc, wr, fw, cls, race>>

\* ------------------------------- the pre-erased queue of a LUN, step by step
\* pool is the LUN's queue of block_pool (lock, nr_elems, list), its bit of
\* block_pool->bitmap, the provisioner work item (ppc, prblk, rlpg), one
\* caller of pblk_block_pool_get (gpc, grblk), the LUN's open_list and the
\* media manager's view of the LUN's blocks (free, bad, put, meta). got lists
\* the blocks pblk_get_blk returned, nil holds the calls that returned NULL.

\* pblk_alloc_blk_meta and pblk_init_blk_meta: zeroed metadata with status
\* PBLK_BLK_ST_OPEN, cur_sec = 0 and nr_invalid_secs = 0
pblk_init_blk_meta(m) ==
    [m EXCEPT !.cur_sec = 0, !.nr_invalid_secs = 0, !.status = "OPEN"]

\* variant: a block whose erase failed is marked bad but not put back
EraseFailedKept(P, b) == [P EXCEPT !.bad = @ \cup {b}]

\* the erase-failure branch of pblk_get_blk: nvm_mark_blk(.., NVM_BLK_ST_BAD)
\* and pblk_retire_blk, which is nvm_put_blk
EraseFailed(P, b) == [P EXCEPT !.bad = @ \cup {b}, !.put[b] = @ + 1]

\* variant: the bit is cleared only when the queue count went below zero
PoolGetClearsNever(nr_elems_dec) == nr_elems_dec < 0

\* the test of pblk_block_pool_get before clear_bit
PoolGetClears(nr_elems_dec) == nr_elems_dec < 2

\* the outcomes of list_add_tail(rblk) on the queue list while the caller of
\* pblk_block_pool_get is inside list_move_tail of the block x, which it
\* runs without the queue lock: the two writers of the list pointers race,
\* and the list ends with both blocks, with the new one only, or empty
ListAddRacing(list, rblk) == {Append(list, rblk), <<rblk>>, <<>>}

\* the while loop of pblk_block_pool_provision for the LUN: the bit is read
\* without the queue lock; a clear bit starts an acquisition, unless the LUN
\* has just gone below the emergency threshold
ProvScan ==
    /\ pool.ppc = "scan"
    /\ ~pool.bit
    /\ pool' = IF ~pool.gc_mode
                  /\ Cardinality(pool.free) < gc_ths_emergency
               THEN [pool EXCEPT !.gc_mode = TRUE]
               ELSE [pool EXCEPT !.ppc = "alloc"]
    /\ UNCHANGED <<gcw, chk,
                   min_write_pgs, max_write_pgs, trans_map, rb, mem, subm,
                   sync, sync_point, compl_list, inflight_rqs, write_inflight,
                   blks, cur, prov_q, next_blk, media, sub, rd, nbio,
                   teardown, last, acks, bio_upto, loc, drained, srd,
                   emergency_gc, ret, pad, calc, wr, fw, cls, race>>

\* pblk_get_blk, pblk_alloc_blk_meta: NULL is returned if the metadata
\* cannot be allocated
GetBlkAlloc ==
    /\ pool.ppc = "alloc"
    /\ \E ok \in BOOLEAN :
          pool' = IF ok THEN [pool EXCEPT !.ppc = "try", !.rlpg = TRUE]
                  ELSE [pool EXCEPT
                           !.ppc = "scan",
                           !.nil = @ \cup {[why |-> "meta",
                                              free |-> pool.free,
                                              rlpg |-> pool.rlpg]}]
    /\ UNCHANGED <<gcw, chk,
                   min_write_pgs, max_write_pgs, trans_map, rb, mem, subm,
                   sync, sync_point, compl_list, inflight_rqs, write_inflight,
                   blks, cur, prov_q, next_blk, media, sub, rd, nbio,
                   teardown, last, acks, bio_upto, loc, drained, srd,
                   emergency_gc, ret, pad, calc, wr, fw, cls, race>>

\* pblk_get_blk at its try label: nvm_get_blk hands out a free block, whose
\* metadata is initialised, or there is none, the RLPG is freed and NULL is
\* returned
GetBlkTry ==
    /\ pool.ppc = "try"
    /\ IF pool.free = {}
       THEN pool' = [pool EXCEPT
                        !.ppc = "scan", !.rlpg = FALSE,
                        !.nil = @ \cup {[why |-> "noblk",
                                           free |-> pool.free,
                                           rlpg |-> FALSE]}]
       ELSE \E b \in pool.free :
               pool' = [pool EXCEPT
                           !.ppc = "erase", !.prblk = b,
                           !.free = @ \ {b},
                           !.meta[b] = pblk_init_blk_meta(@)]
    /\ UNCHANGED <<gcw, chk,
                   min_write_pgs, max_write_pgs, trans_map, rb, mem, subm,
                   sync, sync_point, compl_list, inflight_rqs, write_inflight,
                   blks, cur, prov_q, next_blk, media, sub, rd, nbio,
                   teardown, last, acks, bio_upto, loc, drained, srd,
                   emergency_gc, ret, pad, calc, wr, fw, cls, race>>

\* nvm_erase_blk in pblk_get_blk: on an error the block is marked bad and
\* put back, and the function goes back to its try label; otherwise the
\* block is returned to the provisioner
GetBlkErase ==
    /\ pool.ppc = "erase"
    /\ \E err \in BOOLEAN :
          /\ err => Cardinality(pool.bad) < MaxBadErase
          /\ pool' = IF err
                     THEN [EraseFailed(pool, pool.prblk)
                              EXCEPT !.ppc = "try", !.prblk = 0]
                     ELSE [pool EXCEPT
                              !.ppc = "lock",
                              !.meta[pool.prblk].erased = TRUE,
                              !.rlpg = FALSE,
                              !.got = Append(@, pool.prblk)]
    /\ UNCHANGED <<gcw, chk,
                   min_write_pgs, max_write_pgs, trans_map, rb, mem, subm,
                   sync, sync_point, compl_list, inflight_rqs, write_inflight,
                   blks, cur, prov_q, next_blk, media, sub, rd, nbio,
                   teardown, last, acks, bio_upto, loc, drained, srd,
                   emergency_gc, ret, pad, calc, wr, fw, cls, race>>

\* spin_lock(&queue->lock) in pblk_block_pool_provision
ProvLock ==
    /\ pool.ppc = "lock"
    /\ pool.lock = "free"
    /\ pool' = [pool EXCEPT !.lock = "prov", !.ppc = "add"]
    /\ UNCHANGED <<gcw, chk,
                   min_write_pgs, max_write_pgs, trans_map, rb, mem, subm,
                   sync, sync_point, compl_list, inflight_rqs, write_inflight,
                   blks, cur, prov_q, next_blk, media, sub, rd, nbio,
                   teardown, last, acks, bio_upto, loc, drained, srd,
                   emergency_gc, ret, pad, calc, wr, fw, cls, race>>

\* list_add_tail and ++queue->nr_elems under the queue lock
ProvAdd ==
    /\ pool.ppc = "add"
    /\ \E l \in IF pool.gpc = "moving"
                 THEN ListAddRacing(pool.list, pool.prblk)
                 ELSE {Append(pool.list, pool.prblk)} :
          pool' = [pool EXCEPT !.list = l, !.nr_elems = @ + 1,
                               !.ppc = "set"]
    /\ UNCHANGED <<gcw, chk,
                   min_write_pgs, max_write_pgs, trans_map, rb, mem, subm,
                   sync, sync_point, compl_list, inflight_rqs, write_inflight,
                   blks, cur, prov_q, next_blk, media, sub, rd, nbio,
                   teardown, last, acks, bio_upto, loc, drained, srd,
                   emergency_gc, ret, pad, calc, wr, fw, cls, race>>

\* set_bit if the queue reached its depth, and spin_unlock
ProvSetBit ==
    /\ pool.ppc = "set"
    /\ pool' = [pool EXCEPT
                   !.bit = IF pool.nr_elems = block_pool_qd THEN TRUE ELSE @,
                   !.lock = "free", !.ppc = "scan", !.prblk = 0]
    /\ UNCHANGED <<gcw, chk,
                   min_write_pgs, max_write_pgs, trans_map, rb, mem, subm,
                   sync, sync_point, compl_list, inflight_rqs, write_inflight,
                   blks, cur, prov_q, next_blk, media, sub, rd, nbio,
                   teardown, last, acks, bio_upto, loc, drained, srd,
                   emergency_gc, ret, pad, calc, wr, fw, cls, race>>

\* spin_lock(&queue->lock) in pblk_block_pool_get
PoolGetLock ==
    /\ pool.gpc = "idle"
    /\ pool.lock = "free"
    /\ pool' = [pool EXCEPT !.lock = "get", !.gpc = "locked", !.grblk = 0]
    /\ UNCHANGED <<gcw, chk,
                   min_write_pgs, max_write_pgs, trans_map, rb, mem, subm,
                   sync, sync_point, compl_list, inflight_rqs, write_inflight,
                   blks, cur, prov_q, next_blk, media, sub, rd, nbio,
                   teardown, last, acks, bio_upto, loc, drained, srd,
                   emergency_gc, ret, pad, calc, wr, fw, cls, race>>

\* pblk_block_pool_get under the lock: an empty queue is left at once,
\* otherwise the first block of the list is taken and nr_elems decremented
PoolGetTake ==
    /\ pool.gpc = "locked"
    /\ pool' = IF pool.nr_elems = 0
               THEN [pool EXCEPT !.lock = "free", !.gpc = "idle"]
               ELSE [pool EXCEPT
                        !.grblk = IF pool.list = <<>> THEN 0
                                  ELSE Head(pool.list),
                        !.nr_elems = @ - 1, !.gpc = "dec"]
    /\ UNCHANGED <<gcw, chk,
                   min_write_pgs, max_write_pgs, trans_map, rb, mem, subm,
                   sync, sync_point, compl_list, inflight_rqs, write_inflight,
                   blks, cur, prov_q, next_blk, media, sub, rd, nbio,
                   teardown, last, acks, bio_upto, loc, drained, srd,
                   emergency_gc, ret, pad, calc, wr, fw, cls, race>>

\* clear_bit if fewer than two blocks are left, and spin_unlock
PoolGetClear ==
    /\ pool.gpc = "dec"
    /\ pool' = [pool EXCEPT
                   !.bit = IF PoolGetClears(pool.nr_elems) THEN FALSE ELSE @,
                   !.lock = "free", !.gpc = "move"]
    /\ UNCHANGED <<gcw, chk,
                   min_write_pgs, max_write_pgs, trans_map, rb, mem, subm,
                   sync, sync_point, compl_list, inflight_rqs, write_inflight,
                   blks, cur, prov_q, next_blk, media, sub, rd, nbio,
                   teardown, last, acks, bio_upto, loc, drained, srd,
                   emergency_gc, ret, pad, calc, wr, fw, cls, race>>

\* list_move_tail(&rblk->list, &rlun->open_list) under rlun->lock_lists,
\* with the queue lock released: the unlink from the queue list begins
PoolGetMoveBegin ==
    /\ pool.gpc = "move"
    /\ pool' = [pool EXCEPT !.gpc = "moving"]
    /\ UNCHANGED <<gcw, chk,
                   min_write_pgs, max_write_pgs, trans_map, rb, mem, subm,
                   sync, sync_point, compl_list, inflight_rqs, write_inflight,
                   blks, cur, prov_q, next_blk, media, sub, rd, nbio,
                   teardown, last, acks, bio_upto, loc, drained, srd,
                   emergency_gc, ret, pad, calc, wr, fw, cls, race>>

\* list_move_tail ends: the block is off the queue list and on open_list
PoolGetMoveEnd ==
    /\ pool.gpc = "moving"
    /\ pool' = [pool EXCEPT
                   !.list = SelectSeq(@, LAMBDA x : x # pool.grblk),
                   !.open_list = Append(@, pool.grblk),
                   !.gpc = "idle"]
    /\ UNCHANGED <<gcw, chk,
                   min_write_pgs, max_write_pgs, trans_map, rb, mem, subm,
                   sync, sync_point, compl_list, inflight_rqs, write_inflight,
                   blks, cur, prov_q, next_blk, media, sub, rd, nbio,
                   teardown, last, acks, bio_upto, loc, drained, srd,
                   emergency_gc, ret, pad, calc, wr, fw, cls, race>>

\* the provisioner work item and the mapper's pblk_block_pool_get on one LUN
NextPool ==
    \/ ProvScan
    \/ GetBlkAlloc
    \/ GetBlkTry
    \/ GetBlkErase
    \/ ProvLock
    \/ ProvAdd
    \/ ProvSetBit
    \/ PoolGetLock
    \/ PoolGetTake
    \/ PoolGetClear
    \/ PoolGetMoveBegin
    \/ PoolGetMoveEnd

\* ------------------------------------------------------------ GC admission
\* the lists pblk_write_list_to_cache is called with: nr_secs entries, each an
\* LBA or ADDR_EMPTY, at least one of them an LBA (the bio has data)
GcLists ==
    {l \in UNION {[1 .. n -> LBAs \cup {ADDR_EMPTY}] : n \in 1 .. MaxGcSecs} :
        \E j \in DOMAIN l : l[j] # ADDR_EMPTY}

\* nr_rec_secs: the entries of the list that are not ADDR_EMPTY
NrRecSecs(lba_list) ==
    Cardinality({j \in DOMAIN lba_list : lba_list[j] # ADDR_EMPTY})

\* the payload of a sector moved by GC (the sectors are not told apart)
GcPayload == Payload(MaxBios + 1, 0)

\* variant: every sector of the list is written at the first position
GcWritePosBase(pos, valid_secs) == pos

\* the ring position pblk_write_list_to_cache writes its next sector to
GcWritePos(pos, valid_secs) == pos + valid_secs

\* the loop of pblk_write_list_to_cache from entry i on: entries equal to
\* ADDR_EMPTY are passed over (`continue`); the index of the next entry to
\* admit, or one past the list
GcNextEntry(lba_list, i) ==
    LET S == {j \in DOMAIN lba_list : j >= i /\ lba_list[j] # ADDR_EMPTY}
    IN  IF S = {} THEN Len(lba_list) + 1
        ELSE CHOOSE j \in S : \A k \in S : j <= k

\* pblk_write_list_to_cache up to the return of pblk_setup_write_to_cache:
\* pblk_rb_may_write(nr_upd = nr_secs, nr_com = nr_rec_secs) reserves the
\* slots, or the function returns -1; the emergency-GC mode is not looked at
GcWriteSetup ==
    /\ gcw.pc \in {"idle", "done"} /\ ~teardown
    /\ \E lba_list \in GcLists :
          LET nr_rec_secs == NrRecSecs(lba_list)
              g == [IdleGcw EXCEPT !.lba_list = lba_list,
                                   !.nr_rec_secs = nr_rec_secs,
                                   !.mem0 = mem, !.sync0 = sync,
                                   !.gc_mode = emergency_gc]
          IN  /\ mem + nr_rec_secs <= MaxPos
              /\ IF pblk_rb_may_write(nr_rec_secs)
                 THEN /\ mem' = mem + nr_rec_secs
                      /\ gcw' = [g EXCEPT !.pc = "entry", !.pos = mem,
                                          !.i = 1]
                 ELSE /\ mem' = mem
                      /\ gcw' = [g EXCEPT !.pc = "done", !.ret = "-1"]
    /\ UNCHANGED <<pool, chk,
                   min_write_pgs, max_write_pgs, trans_map, rb, subm, sync,
                   sync_point, compl_list, inflight_rqs, write_inflight, blks,
                   cur, prov_q, next_blk, media, sub, rd, nbio, teardown,
                   last, acks, bio_upto, loc, drained, srd, emergency_gc, ret,
                   pad, calc, wr, fw, cls, race>>

\* the loop of pblk_write_list_to_cache up to pblk_rb_write_entry: the next
\* entry that is not ADDR_EMPTY takes a reference on ref_buf (kref_get) and is
\* written at pos + valid_secs with w_ctx.bio = ctx_bio, which is NULL
GcWriteEntry ==
    LET j == GcNextEntry(gcw.lba_list, gcw.i)
        slot == pblk_rb_wrap_pos(GcWritePos(gcw.pos, gcw.valid_secs))
    IN  /\ gcw.pc = "entry"
        /\ j <= Len(gcw.lba_list)
        /\ rb' = [rb EXCEPT ![slot] =
                     [lba |-> gcw.lba_list[j], bio |-> 0,
                      data |-> GcPayload,
                      paddr |-> 0, rblk |-> 0]]
        /\ gcw' = [gcw EXCEPT !.pc = "map", !.i = j, !.ref = @ + 1]
        /\ UNCHANGED <<pool, chk,
                       min_write_pgs, max_write_pgs, trans_map, mem, subm,
                       sync, sync_point, compl_list, inflight_rqs,
                       write_inflight, blks, cur, prov_q, next_blk, media,
                       sub, rd, nbio, teardown, last, acks, bio_upto, loc,
                       drained, srd, emergency_gc, ret, pad, calc, wr, fw,
                       cls, race>>

\* pblk_update_map for the entry just written, retried (io_schedule) while
\* it reports a conflict; then valid_secs advances and the loop goes on
GcUpdateMap ==
    LET lba == gcw.lba_list[gcw.i]
        ppa == pblk_cacheline_to_ppa(
                   pblk_rb_wrap_pos(GcWritePos(gcw.pos, gcw.valid_secs)))
        data == GcPayload
    IN  /\ gcw.pc = "map"
        /\ ~UpdateMapConflict(trans_map, lba)
        /\ blks' = pblk_page_invalidate(blks, trans_map[lba])
        /\ trans_map' = UpdateMapTm(trans_map, lba, 0, ppa)
        /\ last' = [last EXCEPT ![lba] = data]
        /\ rd' = Concurrent(rd, lba, data)
        /\ gcw' = [gcw EXCEPT
                      !.wrote = Append(@, [pos |-> GcWritePos(gcw.pos,
                                                              gcw.valid_secs),
                                           lba |-> rb[ppa.a].lba,
                                           bio |-> rb[ppa.a].bio,
                                           ppa |-> trans_map'[lba].ppa]),
                      !.valid_secs = @ + 1,
                      !.i = @ + 1,
                      !.pc = IF GcNextEntry(gcw.lba_list, gcw.i + 1)
                                   <= Len(gcw.lba_list)
                             THEN "entry" ELSE "inflight"]
        /\ UNCHANGED <<pool, chk,
                       min_write_pgs, max_write_pgs, rb, mem, subm, sync,
                       sync_point, compl_list, inflight_rqs, write_inflight,
                       cur, prov_q, next_blk, media, sub, nbio, teardown,
                       acks, bio_upto, loc, drained, srd, emergency_gc, ret,
                       pad, calc, wr, fw, cls, race>>

\* pblk_may_submit_write(pblk, nr_rec_secs) and the return of NVM_IO_OK
GcMaySubmitWrite ==
    LET r == __pblk_may_submit_write(write_inflight, gcw.nr_rec_secs)
    IN  /\ gcw.pc = "inflight"
        /\ r.ok
        /\ write_inflight' = r.v
        /\ gcw' = [gcw EXCEPT !.pc = "done", !.ret = "OK",
                              !.added = r.v - write_inflight]
        /\ UNCHANGED <<pool, chk,
                       min_write_pgs, max_write_pgs, trans_map, rb, mem, subm,
                       sync, sync_point, compl_list, inflight_rqs, blks, cur,
                       prov_q, next_blk, media, sub, rd, nbio, teardown, last,
                       acks, bio_upto, loc, drained, srd, emergency_gc, ret,
                       pad, calc, wr, fw, cls, race>>

\* the GC thread admitting lists of moved sectors, the provisioner with the
\* emergency threshold, the media writer and the device
NextGcWrite ==
    \/ GcWriteSetup
    \/ GcWriteEntry
    \/ GcUpdateMap
    \/ GcMaySubmitWrite
    \/ ProvisionGc
    \/ SubmitWrite
    \/ \E c \in inflight_rqs : CompleteWrite(c)

\* ------------------------------------- pblk_pad_open_blks, step by step
\* The walk of pblk_pad_open_blks over one block of the open list, and
\* pblk_pad_blk request by request. pad.blk is the block, pad.f0 the free
\* sectors the walk found; pad.rqs, pad.maps and pad.subs count the calls of
\* pblk_alloc_rqd, pblk_map_page and nvm_submit_io, and pad.batches lists
\* the completion contexts of the pad requests that were set up.

\* the mapper's view of the block under padding
PadView(b) == [blks |-> [x \in BlockIds |-> b], rb |-> rb, cur |-> 1,
               q |-> <<>>, loc |-> loc, ok |-> TRUE]

\* the number of calls of pblk_map_page the loop of pblk_setup_pad_rq makes
PadMapCalls(nr_secs) ==
    Cardinality({i \in 0 .. (nr_secs - 1) : i % min_write_pgs = 0})

\* the body of list_for_each_entry_safe in pblk_pad_open_blks up to the call
\* of pblk_pad_blk
PadOpenBlk ==
    LET nr_free_secs == pblk_nr_free_secs(pad.blk)
    IN  /\ pad.pc = "open"
        /\ pad' = IF nr_free_secs % min_write_pgs # 0
                  THEN [pad EXCEPT !.pc = "corrupt", !.f0 = nr_free_secs]
                  ELSE IF nr_free_secs = nr_blk_dsecs
                  THEN [pad EXCEPT !.pc = "put", !.f0 = nr_free_secs,
                                   !.blk.open = FALSE]
                  ELSE [pad EXCEPT !.pc = "pad_blk", !.f0 = nr_free_secs,
                                   !.nr_free_secs = nr_free_secs]
        /\ UNCHANGED <<pool, gcw, chk,
                   min_write_pgs, max_write_pgs, trans_map, rb, mem, subm,
                   sync, sync_point, compl_list, inflight_rqs, write_inflight,
                   blks, cur, prov_q, next_blk, media, sub, rd, nbio,
                   teardown, last, acks, bio_upto, loc, drained, srd,
                   emergency_gc, ret, calc, wr, fw, cls, race>>

\* the head of the do-while loop of pblk_pad_blk: the batch size is chosen
\* and the request and its bio are allocated; either allocation may fail,
\* and then pblk_pad_blk returns
PadBlkAlloc ==
    LET nr_secs == IF pad.nr_free_secs > max_write_pgs THEN max_write_pgs
                   ELSE pad.nr_free_secs
    IN  /\ pad.pc = "pad_blk"
        /\ \E f \in {"ok", "rqd", "bio"} :
              pad' = IF f = "ok"
                     THEN [pad EXCEPT !.pc = "setup", !.nr_secs = nr_secs,
                                      !.rqs = @ + 1]
                     ELSE IF f = "bio"
                     THEN [pad EXCEPT !.pc = "failed", !.nr_secs = nr_secs,
                                      !.rqs = @ + 1]
                     ELSE [pad EXCEPT !.pc = "failed", !.nr_secs = nr_secs]
        /\ UNCHANGED <<pool, gcw, chk,
                   min_write_pgs, max_write_pgs, trans_map, rb, mem, subm,
                   sync, sync_point, compl_list, inflight_rqs, write_inflight,
                   blks, cur, prov_q, next_blk, media, sub, rd, nbio,
                   teardown, last, acks, bio_upto, loc, drained, srd,
                   emergency_gc, ret, calc, wr, fw, cls, race>>

\* pblk_setup_pad_rq for the context [sentry 0, nr_valid 0, nr_padded
\* nr_secs]: a request of one sector takes the single-sector path, whose
\* BUG_ON(padded_secs != 0) fires because padded_secs is nr_secs; any other
\* request is mapped page by page, and a page that cannot be mapped is a
\* BUG_ON(1)
PadBlkSetup ==
    LET padded_secs == pad.nr_secs
        M == pblk_setup_pad_rq(PadView(pad.blk), 1, pad.nr_secs)
    IN  /\ pad.pc = "setup"
        /\ pad' = IF PadSingleBug(pad.nr_secs, padded_secs)
                  THEN [pad EXCEPT !.pc = "BUG"]
                  ELSE IF ~M.ok
                  THEN [pad EXCEPT !.pc = "BUG"]
                  ELSE [pad EXCEPT
                           !.pc = "submit", !.blk = M.blks[1],
                           !.maps = @ + PadMapCalls(pad.nr_secs),
                           !.batches = Append(@, [nr_valid |-> 0,
                                                  nr_padded |-> padded_secs])]
        /\ UNCHANGED <<pool, gcw, chk,
                   min_write_pgs, max_write_pgs, trans_map, rb, mem, subm,
                   sync, sync_point, compl_list, inflight_rqs, write_inflight,
                   blks, cur, prov_q, next_blk, media, sub, rd, nbio,
                   teardown, last, acks, bio_upto, loc, drained, srd,
                   emergency_gc, ret, calc, wr, fw, cls, race>>

\* nvm_submit_io of the pad request: on an error pblk_pad_blk frees the
\* request and returns, otherwise it waits for the completion
PadBlkSubmit ==
    /\ pad.pc = "submit"
    /\ \E err \in BOOLEAN :
          pad' = IF err THEN [pad EXCEPT !.pc = "failed", !.subs = @ + 1]
                 ELSE [pad EXCEPT !.pc = "wait", !.subs = @ + 1]
    /\ UNCHANGED <<pool, gcw, chk,
                   min_write_pgs, max_write_pgs, trans_map, rb, mem, subm,
                   sync, sync_point, compl_list, inflight_rqs, write_inflight,
                   blks, cur, prov_q, next_blk, media, sub, rd, nbio,
                   teardown, last, acks, bio_upto, loc, drained, srd,
                   emergency_gc, ret, calc, wr, fw, cls, race>>

\* the pad write completes: pblk_end_w_pad frees the request, the batch is
\* taken off nr_free_secs and the loop goes on while sectors are left
PadBlkEnd ==
    /\ pad.pc = "wait"
    /\ pad' = IF pad.nr_free_secs - pad.nr_secs > 0
              THEN [pad EXCEPT !.pc = "pad_blk",
                               !.nr_free_secs = @ - pad.nr_secs]
              ELSE [pad EXCEPT !.pc = "done",
                               !.nr_free_secs = @ - pad.nr_secs]
    /\ UNCHANGED <<pool, gcw, chk,
                   min_write_pgs, max_write_pgs, trans_map, rb, mem, subm,
                   sync, sync_point, compl_list, inflight_rqs, write_inflight,
                   blks, cur, prov_q, next_blk, media, sub, rd, nbio,
                   teardown, last, acks, bio_upto, loc, drained, srd,
                   emergency_gc, ret, calc, wr, fw, cls, race>>

\* the sectors the pad requests of pblk_pad_blk carry in all
RECURSIVE PaddedSecs(_)
PaddedSecs(batches) ==
    IF batches = <<>> THEN 0
    ELSE Head(batches).nr_valid + Head(batches).nr_padded
         + PaddedSecs(Tail(batches))

\* the steps of the walk over one open block
NextPadBlk ==
    \/ PadOpenBlk
    \/ PadBlkAlloc
    \/ PadBlkSetup
    \/ PadBlkSubmit
    \/ PadBlkEnd

\* --------------------------------------------------------------- failures
\* pblk_submit_write failing after pblk_rb_read_commit: at pblk_rb_read_to_bio
\* ("read"), before the request is set up ("setup") or at nvm_submit_io
\* ("submit"); the request is freed and never reaches the device
SubmitWriteFail ==
    \E f \in {"read", "setup", "submit"} :
        LET c == WriterCtx
            M0 == [blks |-> blks, rb |-> rb, cur |-> cur, q |-> prov_q,
                   loc |-> loc, ok |-> TRUE]
            M == IF f = "submit" THEN pblk_setup_w_rq(M0, c) ELSE M0
        IN  /\ WriterRuns
            /\ M.ok
            /\ subm' = subm + c.nr_valid
            /\ sync_point' = IF f = "read" THEN sync_point
                             ELSE SyncPointAfter(c)
            /\ blks' = M.blks /\ rb' = M.rb /\ cur' = M.cur /\ prov_q' = M.q
            /\ loc' = M.loc
            /\ UNCHANGED <<pool, gcw, chk,
                           min_write_pgs, max_write_pgs, trans_map, mem, sync,
                           compl_list, inflight_rqs, write_inflight, next_blk,
                           media, sub, rd, nbio, teardown, last, acks,
                           bio_upto, drained,
                   srd, emergency_gc, ret, pad, calc, wr, fw, cls, race>>

\* the entries pblk_end_w_fail retires through pblk_compl_queue: the
\* successful prefix before the first failing bit
FailPrefix(c, bit) == Min(bit, c.nr_valid)

\* the request pblk_recov_setup_rq builds for the entries from the first
\* failing one on
RecoveryCtx(c, bit) ==
    LET n == c.nr_valid - FailPrefix(c, bit)
    IN  [sentry |-> c.sentry + FailPrefix(c, bit), nr_valid |-> n,
         nr_padded |-> (min_write_pgs - (n % min_write_pgs)) % min_write_pgs]

\* pblk_run_recovery: the grown bad block is marked bad
pblk_run_recovery(B, b) == [B EXCEPT ![b].bad = TRUE]

\* pblk_end_w_fail of a data write whose first failing sector is `bit` (the
\* device reports write failures until MaxBad blocks have grown bad)
CompleteWriteFail(c) ==
    \E bit \in 0 .. (c.nr_valid + c.nr_padded - 1) :
        LET nr_ppas == c.nr_valid + c.nr_padded
            pre == [c EXCEPT !.nr_valid = FailPrefix(c, bit), !.nr_padded = 0]
            rec == RecoveryCtx(c, bit)
            failed == rb[pblk_rb_wrap_pos(c.sentry + bit)]
            B1 == IF bit < c.nr_valid THEN pblk_run_recovery(blks, failed.rblk)
                  ELSE blks
            M == IF rec.nr_valid = 0
                 THEN [blks |-> B1, rb |-> rb, cur |-> cur, q |-> prov_q,
                       loc |-> loc, ok |-> TRUE]
                 ELSE pblk_setup_w_rq([blks |-> B1, rb |-> rb, cur |-> cur,
                                       q |-> prov_q, loc |-> loc, ok |-> TRUE],
                                      rec)
            S == pblk_compl_queue([rb |-> M.rb, blks |-> M.blks,
                                   tm |-> trans_map, acks |-> acks,
                                   sync |-> sync, cl |-> compl_list,
                                   blocked |-> FALSE], pre)
        IN  /\ c \in inflight_rqs
            /\ Cardinality({b \in BlockIds : blks[b].bad}) < MaxBad
            /\ IF nr_ppas = 1
               THEN /\ inflight_rqs' = inflight_rqs \ {c}
                    /\ UNCHANGED <<trans_map, rb, sync, compl_list,
                                   write_inflight, blks, cur, prov_q, media,
                                   acks, loc, drained>>
               ELSE /\ M.ok /\ ~S.blocked
                    /\ inflight_rqs' = (inflight_rqs \ {c}) \cup
                           (IF rec.nr_valid = 0 THEN {} ELSE {rec})
                    /\ media' = MediaWrite(media, pre, 0)
                    /\ write_inflight' = InflightAfter(write_inflight, pre)
                    /\ cur' = M.cur /\ prov_q' = M.q /\ loc' = M.loc
                    /\ rb' = S.rb /\ blks' = S.blks /\ trans_map' = S.tm
                    /\ acks' = S.acks /\ sync' = S.sync /\ compl_list' = S.cl
                    /\ drained' = (drained \/ Len(S.cl) < Len(compl_list))
            /\ UNCHANGED <<pool, gcw, chk,
                           min_write_pgs, max_write_pgs, mem, subm, sync_point,
                           next_blk, sub, rd, nbio, teardown, last, bio_upto,
                           srd, emergency_gc, ret, pad, calc, wr,
                           fw, cls, race>>

\* ------------------------------------------------------ close-block writes
\* the errors the device reports for a write
WriteErrors == {"ok", "FAILWRITE", "other"}

\* pblk_close_blk, the work pblk_run_blk_ws queued when the sync_bitmap of b
\* became full: the close-block write of b, the block's last page holding
\* its recovery metadata, is submitted to the device
CloseBlkWrite(b) ==
    /\ blks[b].closes > 0
    /\ b \notin cls.written
    /\ cls' = [cls EXCEPT !.rq = @ \cup {b}, !.written = @ \cup {b}]
    /\ UNCHANGED <<pool, gcw, chk,
                   min_write_pgs, max_write_pgs, trans_map, rb, mem, subm,
                   sync, sync_point, compl_list, inflight_rqs, write_inflight,
                   blks, cur, prov_q, next_blk, media, sub, rd, nbio,
                   teardown, last, acks, bio_upto, loc, drained, srd,
                   emergency_gc, ret, pad, calc, wr, fw, race>>

\* variant: the block is queued for GC whatever run_gc is
pblk_end_close_blk_bio_gc(C, b, run_gc) ==
    [C EXCEPT !.gc[b] = @ + 1, !.ended[b] = @ + 1, !.rq = @ \ {b}]

\* pblk_end_close_blk_bio: the block is queued for GC if run_gc is set, the
\* request and its bio are released
pblk_end_close_blk_bio(C, b, run_gc) ==
    [C EXCEPT !.gc[b] = IF run_gc = 1 THEN @ + 1 ELSE @,
              !.ended[b] = @ + 1, !.rq = @ \ {b}]

\* pblk_end_io_write of the close-block write of b, which the device
\* completes with `error`; a failed one goes through pblk_end_w_fail
EndIoWriteCloseBlk(b, error) ==
    /\ b \in cls.rq
    /\ IF error = "FAILWRITE"
       THEN /\ Cardinality({x \in BlockIds : blks[x].bad}) < MaxBad
            /\ blks' = pblk_run_recovery(blks, b)
            /\ cls' = pblk_end_close_blk_bio(
                          [cls EXCEPT !.error[b] = error], b, 0)
       ELSE /\ blks' = blks
            /\ cls' = pblk_end_close_blk_bio(
                          [cls EXCEPT !.error[b] = error], b, 1)
    /\ UNCHANGED <<pool, gcw, chk,
                   min_write_pgs, max_write_pgs, trans_map, rb, mem, subm,
                   sync, sync_point, compl_list, inflight_rqs, write_inflight,
                   cur, prov_q, next_blk, media, sub, rd, nbio, teardown,
                   last, acks, bio_upto, loc, drained, srd, emergency_gc, ret,
                   pad, calc, wr, fw, race>>

\* ------------------------------------------------------ read range check
\* BUG_ON(!(laddr >= 0 && laddr < pblk->nr_secs)) of pblk_read_rq
ReadRqInRange(laddr, nr_secs) == laddr >= 0 /\ laddr < nr_secs

\* BUG_ON(!(laddr >= 0 && laddr + nr_secs < pblk->nr_secs)) of
\* pblk_read_ppalist_rq; n is the bio's sector count
ReadPpalistInRange(laddr, n, nr_secs) == laddr >= 0 /\ laddr + n < nr_secs

\* pblk_submit_read up to the bounds assertion of the path the bio takes
ReadRangeCheck ==
    /\ chk.pc = "call"
    /\ chk' = [chk EXCEPT !.pc =
                  IF chk.n > 1
                  THEN IF ReadPpalistInRange(chk.laddr, chk.n, chk.nr_secs)
                       THEN "passed" ELSE "BUG"
                  ELSE IF ReadRqInRange(chk.laddr, chk.nr_secs)
                       THEN "passed" ELSE "BUG"]
    /\ UNCHANGED <<pool, gcw, min_write_pgs, max_write_pgs, trans_map, rb,
                   mem, subm, sync, sync_point, compl_list, inflight_rqs,
                   write_inflight, blks, cur, prov_q, next_blk, media, sub,
                   rd, nbio, teardown, last, acks, bio_upto, loc, drained,
                   srd, emergency_gc, ret, pad, calc, wr, fw, cls, race>>

\* ------------------------------- completion and padding on the same block
\* One open block: pages of data, of data and padding or (pblk_pad_blk) of
\* padding alone are mapped to it while data sectors mapped earlier complete.
\* A page of padding alone meets writes in flight when pblk_pad_open_blks is
\* entered without the writer flushed (pblk_flush_writer returns at once when
\* its bio cannot be allocated). pblk_sync_buffer runs in the completion
\* context and takes no block lock; pblk_page_pad_invalidate runs under
\* rblk->lock inside pblk_map_page. Each sets its bit with test_and_set_bit
\* and reads the bitmap in a second step.

\* test_and_set_bit(block_ppa, rblk->sync_bitmap) of pblk_sync_buffer
SyncBufferSet(b, block_ppa) == [b EXCEPT !.sync_bitmap = @ \cup {block_ppa}]

\* the bits pblk_page_pad_invalidate sets for a padding sector
PadInvalidateSet(b, paddr) ==
    [b EXCEPT !.nr_invalid_secs = @ + 1,
              !.invalid_bitmap = @ \cup {paddr},
              !.sync_bitmap = @ \cup {paddr}]

\* if (bitmap_full(rblk->sync_bitmap, ...)) pblk_run_blk_ws(.., pblk_close_blk)
CloseIfFull(b) == IF bitmap_full(b.sync_bitmap) THEN CloseBlk(b) ELSE b

\* pblk_sync_buffer, first half: the bit of the next completed data sector
RaceSyncSet ==
    /\ race.cpc = "idle"
    /\ race.inflight # <<>>
    /\ race' = [race EXCEPT !.blk = SyncBufferSet(@, Head(race.inflight)),
                            !.inflight = Tail(@),
                            !.cbit = Head(race.inflight),
                            !.cpc = "test"]
    /\ UNCHANGED <<pool, gcw, chk,
                   min_write_pgs, max_write_pgs, trans_map, rb, mem, subm,
                   sync, sync_point, compl_list, inflight_rqs, write_inflight,
                   blks, cur, prov_q, next_blk, media, sub, rd, nbio,
                   teardown, last, acks, bio_upto, loc, drained, srd,
                   emergency_gc, ret, pad, calc, wr, fw, cls>>

\* pblk_sync_buffer, second half: the bitmap is read and close_blk scheduled
RaceSyncTest ==
    /\ race.cpc = "test"
    /\ race' = [race EXCEPT !.blk = CloseIfFull(@), !.cpc = "idle"]
    /\ UNCHANGED <<pool, gcw, chk,
                   min_write_pgs, max_write_pgs, trans_map, rb, mem, subm,
                   sync, sync_point, compl_list, inflight_rqs, write_inflight,
                   blks, cur, prov_q, next_blk, media, sub, rd, nbio,
                   teardown, last, acks, bio_upto, loc, drained, srd,
                   emergency_gc, ret, pad, calc, wr, fw, cls>>

\* pblk_map_page of a page with valid_secs data sectors: rblk->lock is taken,
\* pblk_alloc_page hands out the next min_write_pgs sectors and the data
\* sectors are mapped; they are submitted once the padding sectors that
\* follow them are marked. A page without data is a page of pblk_pad_blk,
\* which pblk_pad_open_blks calls for a block that is not empty
RaceMapPage(valid_secs) ==
    /\ race.mpc = "idle"
    /\ ~block_is_full(race.blk)
    /\ valid_secs = 0 => race.blk.cur_sec > 0
    /\ LET data == [x \in 1 .. valid_secs |-> race.blk.cur_sec + x - 1]
           b1 == [pblk_next_base_sec(race.blk, min_write_pgs)
                     EXCEPT !.nr_lbas = @ + valid_secs]
       IN  race' = IF valid_secs = min_write_pgs
                   THEN [race EXCEPT !.blk = b1, !.inflight = @ \o data]
                   ELSE [race EXCEPT !.blk = b1, !.mdata = data,
                                     !.mbit = race.blk.cur_sec + valid_secs,
                                     !.mend = race.blk.cur_sec + min_write_pgs,
                                     !.mpc = "set"]
    /\ UNCHANGED <<pool, gcw, chk,
                   min_write_pgs, max_write_pgs, trans_map, rb, mem, subm,
                   sync, sync_point, compl_list, inflight_rqs, write_inflight,
                   blks, cur, prov_q, next_blk, media, sub, rd, nbio,
                   teardown, last, acks, bio_upto, loc, drained, srd,
                   emergency_gc, ret, pad, calc, wr, fw, cls>>

\* pblk_page_pad_invalidate, first half: the bits of the padding sector
RacePadSet ==
    /\ race.mpc = "set"
    /\ race' = [race EXCEPT !.blk = PadInvalidateSet(@, race.mbit),
                            !.mpc = "test"]
    /\ UNCHANGED <<pool, gcw, chk,
                   min_write_pgs, max_write_pgs, trans_map, rb, mem, subm,
                   sync, sync_point, compl_list, inflight_rqs, write_inflight,
                   blks, cur, prov_q, next_blk, media, sub, rd, nbio,
                   teardown, last, acks, bio_upto, loc, drained, srd,
                   emergency_gc, ret, pad, calc, wr, fw, cls>>

\* pblk_page_pad_invalidate, second half, and the step of the loop of
\* pblk_map_page to the next sector of the page; after the last one the
\* request is submitted
RacePadTest ==
    /\ race.mpc = "test"
    /\ LET b1 == [CloseIfFull(race.blk) EXCEPT !.nr_padded = @ + 1]
       IN  race' = IF race.mbit + 1 < race.mend
                   THEN [race EXCEPT !.blk = b1, !.mbit = @ + 1, !.mpc = "set"]
                   ELSE [race EXCEPT !.blk = b1, !.mbit = @ + 1,
                                     !.mpc = "idle", !.mdata = <<>>,
                                     !.inflight = @ \o race.mdata]
    /\ UNCHANGED <<pool, gcw, chk,
                   min_write_pgs, max_write_pgs, trans_map, rb, mem, subm,
                   sync, sync_point, compl_list, inflight_rqs, write_inflight,
                   blks, cur, prov_q, next_blk, media, sub, rd, nbio,
                   teardown, last, acks, bio_upto, loc, drained, srd,
                   emergency_gc, ret, pad, calc, wr, fw, cls>>

\* the block sector `bit` of the request was mapped to: pblk_map_rr_page takes
\* the LUNs in turn, one page of min_write_pgs sectors each
FwBlk(f, bit) == ((bit \div min_write_pgs) % f.nr_luns) + 1

\* ppa_cmp_blk: both addresses set and in the same block (0: ppa_set_empty)
ppa_cmp_blk(b1, b2) == b1 # 0 /\ b2 # 0 /\ b1 = b2

\* pblk_rb_sync_scan_entry finds the ring entry that was mapped to the
\* address; a padding sector has none
pblk_rb_sync_scan_entry(f, bit) == bit < f.nr_valid

\* the test that ends the scan of pblk_end_w_fail
ScanEnds(bit, nr_valid) == bit > nr_valid

\* the loop of pblk_end_w_fail over the failing bits from `bit` on; R is
\* [scanned, failed, recov, prev]: the bits looked up in the ring, the
\* recovery list, the calls of pblk_run_recovery and prev_ppa
RECURSIVE EndWFailLoop(_, _, _)
EndWFailLoop(f, R, bit) ==
    IF bit >= f.nr_ppas THEN R
    ELSE IF bit \notin f.comp_bits THEN EndWFailLoop(f, R, bit + 1)
    ELSE IF ScanEnds(bit, f.nr_valid) THEN R
    ELSE LET R1 == [R EXCEPT !.scanned = @ \cup {bit}]
             R2 == [R1 EXCEPT !.failed = Append(@, bit)]
             R3 == [R2 EXCEPT !.prev = FwBlk(f, bit),
                              !.recov = Append(@, FwBlk(f, bit))]
         IN  IF ~pblk_rb_sync_scan_entry(f, bit)
             THEN EndWFailLoop(f, R1, bit + 1)
             ELSE IF ppa_cmp_blk(FwBlk(f, bit), R.prev)
                  THEN EndWFailLoop(f, R2, bit + 1)
                  ELSE EndWFailLoop(f, R3, bit + 1)

\* pblk_end_w_fail of the data write drawn at the start
EndWFail ==
    LET R == EndWFailLoop(fw, [scanned |-> {}, failed |-> <<>>,
                               recov |-> <<>>, prev |-> 0], 0)
    IN  /\ fw.pc = "call"
        /\ fw' = IF fw.nr_ppas = 1 THEN [fw EXCEPT !.pc = "done"]
                  ELSE [fw EXCEPT !.pc = "done", !.scanned = R.scanned,
                                  !.failed = R.failed, !.recov = R.recov]
        /\ UNCHANGED <<pool, gcw, chk,
                       min_write_pgs, max_write_pgs, trans_map, rb, mem, subm,
                       sync, sync_point, compl_list, inflight_rqs,
                       write_inflight, blks, cur, prov_q, next_blk, media,
                       sub, rd, nbio, teardown, last, acks, bio_upto, loc,
                       drained, srd, emergency_gc, ret, pad, calc, wr, cls,
                       race>>

\* the steps a submitter thread takes by itself once its bio is admitted
SubmitterStep(t) == WriteEntry(t) \/ UpdateMap(t) \/ MaySubmitWrite(t)

\* the steps the core takes without new input: a submitter going on with its
\* bio, the provisioner, the media writer and the device completing a write
CoreStep ==
    \/ SubmitterStep(1)
    \/ Provision
    \/ SubmitWrite
    \/ \E c \in inflight_rqs : CompleteWrite(c)

\* the steps of pblk_pad_open_blks once it has started
PadStep ==
    \/ \E b \in BlockIds : PadBlk(b) \/ PutEmptyBlk(b)
    \/ PadReturn

\* ------------------------------------------------- the mapper, step by step
\* pblk_submit_write from its pre-check to the call of pblk_setup_w_rq: the
\* entries are committed and the request context is built
SetupWRqCommit ==
    LET c == WriterCtx
    IN  /\ wr.pc = "idle"
        /\ WriterRuns
        /\ subm' = subm + c.nr_valid
        /\ sync_point' = SyncPointAfter(c)
        /\ wr' = [IdleWr EXCEPT !.pc = "map", !.c = c]
        /\ UNCHANGED <<pool, gcw, chk,
                       min_write_pgs, max_write_pgs, trans_map, rb, mem, sync,
                       compl_list, inflight_rqs, write_inflight, blks, cur,
                       prov_q, next_blk, media, sub, rd, nbio, teardown, last,
                       acks, bio_upto, loc, drained, srd, emergency_gc, ret,
                       pad, calc, fw, cls, race>>

\* the try_lun label of pblk_map_rr_page: spin_lock(&rlun->lock), which waits
\* while the lock is held
MapRrLock ==
    /\ wr.pc \in {"map", "yield"}
    /\ ~wr.lun_lock
    /\ wr' = [wr EXCEPT !.pc = "locked", !.lun_lock = TRUE]
    /\ UNCHANGED <<pool, gcw, chk,
                   min_write_pgs, max_write_pgs, trans_map, rb, mem, subm,
                   sync, sync_point, compl_list, inflight_rqs, write_inflight,
                   blks, cur, prov_q, next_blk, media, sub, rd, nbio,
                   teardown, last, acks, bio_upto, loc, drained, srd,
                   emergency_gc, ret, pad, calc, fw, cls, race>>

\* variant: the mapper yields with rlun->lock still held
UnlockOnEmptyKept(held) == held

\* whether rlun->lock is held after the mapper found no pre-erased block:
\* spin_unlock(&rlun->lock) comes before schedule()
UnlockOnEmpty(held) == FALSE

\* the try_cur label of pblk_map_rr_page under rlun->lock, for the group at
\* wr.i: without a block to replace a full or bad current block the mapper
\* unlocks and yields; otherwise the group is mapped, the lock is released,
\* and after the last group the request goes to nvm_submit_io
MapRrTry ==
    LET c == wr.c
        nr_secs == c.nr_valid + c.nr_padded
        M == IF nr_secs = 1
             THEN pblk_map_rr_page([blks |-> blks, rb |-> rb, cur |-> cur,
                                    q |-> prov_q, loc |-> loc, ok |-> TRUE],
                                   c.sentry, 1, 1)
             ELSE pblk_map_rr_page([blks |-> blks, rb |-> rb, cur |-> cur,
                                    q |-> prov_q, loc |-> loc, ok |-> TRUE],
                                   c.sentry + wr.i, min_write_pgs,
                                   SetupSecs(wr.i, c.nr_valid))
        i == wr.i + min_write_pgs
    IN  /\ wr.pc = "locked"
        /\ IF ~M.ok
           THEN /\ wr' = [wr EXCEPT !.pc = "yield",
                                    !.lun_lock = UnlockOnEmpty(@),
                                    !.yielded = TRUE]
                /\ UNCHANGED <<rb, blks, cur, prov_q, loc, inflight_rqs>>
           ELSE /\ blks' = M.blks /\ rb' = M.rb /\ cur' = M.cur
                /\ prov_q' = M.q /\ loc' = M.loc
                /\ IF i >= nr_secs
                   THEN /\ inflight_rqs' = inflight_rqs \cup {c}
                        /\ wr' = IdleWr
                   ELSE /\ inflight_rqs' = inflight_rqs
                        /\ wr' = [wr EXCEPT !.pc = "map", !.i = i,
                                            !.lun_lock = FALSE,
                                            !.yielded = FALSE]
        /\ UNCHANGED <<pool, gcw, chk,
                       min_write_pgs, max_write_pgs, trans_map, mem, subm,
                       sync, sync_point, compl_list, write_inflight, next_blk,
                       media, sub, rd, nbio, teardown, last, acks, bio_upto,
                       drained, srd, emergency_gc, ret, pad, calc,
                       fw, cls, race>>

\* the steps of the media writer in the step-by-step mapper
MapperStep == SetupWRqCommit \/ MapRrLock \/ MapRrTry

\* the steps of the submitter and of the device
DeviceStep == SubmitterStep(1) \/ \E c \in inflight_rqs : CompleteWrite(c)

\* ---------------------------------------------------------- specification
InitCore ==
    /\ trans_map = [l \in LBAs |-> [ppa |-> PpaEmpty, rc |-> 0, rblk |-> 0]]
    /\ rb = [x \in Slots |-> EmptyEntry]
    /\ mem = 0 /\ subm = 0 /\ sync = 0
    /\ sync_point = -1
    /\ compl_list = <<>>
    /\ inflight_rqs = {}
    /\ write_inflight = 0
    /\ blks = [b \in BlockIds |->
                  IF b = 1 THEN [FreshBlk EXCEPT !.open = TRUE] ELSE FreshBlk]
    /\ cur = 1
    /\ prov_q = <<>>
    /\ next_blk = 2
    /\ media = [x \in BlockIds \X (0 .. (MaxDsecs - 1)) |-> NoData]
    /\ sub = [t \in Submitters |-> IdleSub]
    /\ rd = [r \in Readers |-> IdleRd]
    /\ nbio = 0
    /\ teardown = FALSE
    /\ last = [l \in LBAs |-> NoData]
    /\ acks = {}
    /\ bio_upto = [b \in 1 .. MaxBios |-> 0]
    /\ loc = [p \in 0 .. (MaxPos - 1) |-> <<0, 0>>]
    /\ drained = FALSE
    /\ srd = IdleSrd
    /\ emergency_gc = FALSE
    /\ ret = [b \in 1 .. MaxBios |-> "none"]
    /\ wr = IdleWr
    /\ cls = IdleCls
    /\ pool = IdlePool
    /\ gcw = IdleGcw

Init ==
    /\ \E g \in Geometries : min_write_pgs = g[1] /\ max_write_pgs = g[2]
    /\ InitCore
    /\ pad = IdlePad
    /\ calc = IdleCalc
    /\ fw = IdleFw
    /\ race = IdleRace
    /\ chk = IdleChk

\* a call of pblk_calc_secs_to_sync: any geometry with max_write_pgs a multiple
\* of min_write_pgs, any secs_avail and any secs_to_flush up to it
InitCalc ==
    /\ \E g \in CalcGeometries : min_write_pgs = g[1] /\ max_write_pgs = g[2]
    /\ InitCore
    /\ pad = IdlePad
    /\ \E a \in 0 .. MaxAvail : \E f \in 0 .. a :
          calc = [secs_avail |-> a, secs_to_flush |-> f, secs_to_sync |-> -1]
    /\ fw = IdleFw
    /\ race = IdleRace
    /\ chk = IdleChk

\* a read bio of n sectors at laddr that lies inside a device of nr_secs
\* sectors
InitChk ==
    /\ \E g \in Geometries : min_write_pgs = g[1] /\ max_write_pgs = g[2]
    /\ InitCore
    /\ pad = IdlePad
    /\ calc = IdleCalc
    /\ fw = IdleFw
    /\ race = IdleRace
    /\ \E d \in 1 .. MaxChkSecs : \E laddr \in 0 .. (d - 1) :
       \E n \in 1 .. (d - laddr) :
          chk = [pc |-> "call", nr_secs |-> d, laddr |-> laddr, n |-> n]

\* an open block on the LUN's open list when pblk_pad_open_blks reaches it,
\* after the writer has been flushed: whole pages are mapped and written,
\* any of their sectors may be invalid, and a block whose last sector has
\* been written has had its close work scheduled, which has not run yet
InitPadBlk ==
    /\ \E g \in Geometries : min_write_pgs = g[1] /\ max_write_pgs = g[2]
    /\ InitCore
    /\ calc = IdleCalc
    /\ fw = IdleFw
    /\ race = IdleRace
    /\ chk = IdleChk
    /\ \E pages \in 0 .. PagesPerBlk :
       \E inv \in SUBSET (0 .. (pages * min_write_pgs - 1)) :
          LET mapped == 0 .. (pages * min_write_pgs - 1)
          IN  pad = [IdlePad EXCEPT
                        !.pc = "open",
                        !.blk = [FreshBlk EXCEPT
                                    !.open = TRUE,
                                    !.cur_sec = pages * min_write_pgs,
                                    !.sector_bitmap = mapped,
                                    !.sync_bitmap = mapped,
                                    !.invalid_bitmap = inv,
                                    !.nr_invalid_secs = Cardinality(inv),
                                    !.nr_lbas = pages * min_write_pgs,
                                    !.closes = IF pages = PagesPerBlk THEN 1
                                               ELSE 0]]

\* a fresh open block, no write in flight
InitRace ==
    /\ \E g \in Geometries : min_write_pgs = g[1] /\ max_write_pgs = g[2]
    /\ InitCore
    /\ pad = IdlePad
    /\ calc = IdleCalc
    /\ fw = IdleFw
    /\ chk = IdleChk
    /\ race = [IdleRace EXCEPT !.blk.open = TRUE]

\* a call of pblk_end_w_fail for a data write: a request of nr_ppas sectors
\* mapped page by page over nr_luns LUNs, its last page padded, and any
\* non-empty set of failing sectors in rqd->ppa_status
InitFw ==
    /\ \E g \in FwGeometries : min_write_pgs = g[1] /\ max_write_pgs = g[2]
    /\ InitCore
    /\ pad = IdlePad
    /\ calc = IdleCalc
    /\ race = IdleRace
    /\ chk = IdleChk
    /\ \E l \in 1 .. NrLuns : \E n \in 1 .. MaxFwPpas : \E v \in 1 .. n :
       \E bits \in (SUBSET (0 .. (n - 1))) \ {{}} :
          /\ n % min_write_pgs = 0
          /\ n <= max_write_pgs
          /\ n - v < min_write_pgs
          /\ fw = [IdleFw EXCEPT !.pc = "call", !.nr_luns = l, !.nr_ppas = n,
                                 !.nr_valid = v, !.comp_bits = bits]

Next ==
    \/ \E t \in Submitters : BufferWrite(t)
    \/ \E t \in Submitters : WriteEntry(t)
    \/ \E t \in Submitters : UpdateMap(t)
    \/ \E t \in Submitters : MaySubmitWrite(t)
    \/ \E t \in Submitters : FlushNoData(t)
    \/ Provision
    \/ SubmitWrite
    \/ \E c \in inflight_rqs : CompleteWrite(c)
    \/ StartTeardown
    \/ \E b \in BlockIds : PadBlk(b)
    \/ \E b \in BlockIds : PutEmptyBlk(b)

Spec == Init /\ [][Next]_vars

\* the write path of one submitter with failing writer runs and failing
\* device writes
NextFail ==
    \/ BufferWrite(1)
    \/ WriteEntry(1)
    \/ UpdateMap(1)
    \/ MaySubmitWrite(1)
    \/ Provision
    \/ SubmitWrite
    \/ \E c \in inflight_rqs : CompleteWrite(c)
    \/ SubmitWriteFail
    \/ \E c \in inflight_rqs : CompleteWriteFail(c)

SpecFail == Init /\ [][NextFail]_vars

\* reads and discards racing with one submitter, the media writer and the
\* device completions
NextRead ==
    \/ BufferWritePlain(1)
    \/ WriteEntry(1)
    \/ UpdateMap(1)
    \/ MaySubmitWrite(1)
    \/ Provision
    \/ SubmitWrite
    \/ \E c \in inflight_rqs : CompleteWrite(c)
    \/ \E r \in Readers : ReadLookup(r)
    \/ \E r \in Readers : ReadFinish(r)
    \/ Discard

\* a device whose write unit is one sector
InitRead == Init /\ min_write_pgs = 1 /\ max_write_pgs = 1

SpecRead == InitRead /\ [][NextRead]_vars

\* one submitter whose bios may find the ring full or the device in
\* emergency-GC mode, with the provisioner watching the free-block threshold
NextGate ==
    \/ BufferWrite(1)
    \/ BufferWriteRequeue(1)
    \/ BufferWriteWait(1)
    \/ BufferWriteRetry(1)
    \/ WriteEntry(1)
    \/ UpdateMap(1)
    \/ MaySubmitWrite(1)
    \/ FlushNoData(1)
    \/ ProvisionGc
    \/ SubmitWrite
    \/ \E c \in inflight_rqs : CompleteWrite(c)

SpecGate == Init /\ [][NextGate]_vars

\* one submitter of plain writes and a media writer whose runs may fail after
\* the commit; the submitter, the provisioner, the writer and the device keep
\* running, a failing run is never forced
NextSubmitFail ==
    \/ BufferWritePlain(1)
    \/ WriteEntry(1)
    \/ UpdateMap(1)
    \/ MaySubmitWrite(1)
    \/ Provision
    \/ SubmitWrite
    \/ \E c \in inflight_rqs : CompleteWrite(c)
    \/ SubmitWriteFail

SpecSubmitFail ==
    /\ Init
    /\ [][NextSubmitFail]_vars
    /\ WF_vars(CoreStep)

\* one submitter of plain writes, the media writer and the teardown, whose pad
\* writes may fail; every thread keeps running and the device completes its
\* I/O, a failure is never forced
NextPad ==
    \/ BufferWritePlain(1)
    \/ WriteEntry(1)
    \/ UpdateMap(1)
    \/ MaySubmitWrite(1)
    \/ Provision
    \/ SubmitWrite
    \/ \E c \in inflight_rqs : CompleteWrite(c)
    \/ StartTeardown
    \/ \E b \in BlockIds : PadBlk(b)
    \/ \E b \in BlockIds : PutEmptyBlk(b)
    \/ \E b \in BlockIds : PadBlkFail(b)
    \/ PadReturn

SpecPad ==
    /\ Init
    /\ [][NextPad]_vars
    /\ WF_vars(CoreStep)
    /\ WF_vars(PadStep)

\* the pre-erased queue of one LUN
SpecPool == InitRead /\ [][NextPool]_vars

\* GC admission with a write unit of one sector
SpecGcWrite == InitRead /\ [][NextGcWrite]_vars

\* pblk_pad_open_blks on one open block, any fill and any geometry
SpecPadBlk == InitPadBlk /\ [][NextPadBlk]_vars

\* one submitter of write bios with or without REQ_PREFLUSH and of flushes
\* without data; the writer keeps running and the device completes its writes
NextFlush ==
    \/ BufferWrite(1)
    \/ WriteEntry(1)
    \/ UpdateMap(1)
    \/ MaySubmitWrite(1)
    \/ FlushNoData(1)
    \/ Provision
    \/ SubmitWrite
    \/ \E c \in inflight_rqs : CompleteWrite(c)

SpecFlush == Init /\ [][NextFlush]_vars /\ WF_vars(CoreStep)

\* pblk_calc_secs_to_sync alone, applied to every drawn input
NextCalc == CalcSecsToSync

SpecCalc == InitCalc /\ [][NextCalc]_vars

\* pblk_end_w_fail alone, applied to every drawn request and failure bitmap
NextEndWFail == EndWFail

SpecEndWFail == InitFw /\ [][NextEndWFail]_vars

\* the bounds assertion of the read path, applied to every drawn read
NextChk == ReadRangeCheck

SpecChk == InitChk /\ [][NextChk]_vars

\* a completion context and a padding mapper at work on the same block
NextRace ==
    \/ \E valid_secs \in 0 .. min_write_pgs : RaceMapPage(valid_secs)
    \/ RaceSyncSet
    \/ RaceSyncTest
    \/ RacePadSet
    \/ RacePadTest

SpecRace == InitRace /\ [][NextRace]_vars

\* one submitter of plain writes, the media writer and one two-sector reader;
\* every thread that can run keeps running and the device completes its I/O
NextSeqRead ==
    \/ BufferWritePlain(1)
    \/ WriteEntry(1)
    \/ UpdateMap(1)
    \/ MaySubmitWrite(1)
    \/ Provision
    \/ SubmitWrite
    \/ \E c \in inflight_rqs : CompleteWrite(c)
    \/ SeqReadLookup
    \/ SeqReadClassify
    \/ SeqReadComplete

\* the steps of the two-sector read past its lookup
SeqReadStep == SeqReadClassify \/ SeqReadComplete

SpecSeqRead ==
    /\ InitRead
    /\ [][NextSeqRead]_vars
    /\ WF_vars(CoreStep)
    /\ WF_vars(SeqReadStep)

\* one submitter, the provisioner and a media writer whose mapper runs group
\* by group, taking and releasing the LUN lock; every thread keeps running
NextMap ==
    \/ BufferWrite(1)
    \/ WriteEntry(1)
    \/ UpdateMap(1)
    \/ MaySubmitWrite(1)
    \/ Provision
    \/ SetupWRqCommit
    \/ MapRrLock
    \/ MapRrTry
    \/ \E c \in inflight_rqs : CompleteWrite(c)

SpecMap ==
    /\ Init
    /\ [][NextMap]_vars
    /\ WF_vars(MapperStep)
    /\ WF_vars(Provision)
    /\ WF_vars(DeviceStep)

\* every caller of the mapper in one system: the media writer, the
\* re-submission after a failed write, and the pad writes of the teardown
NextAlloc ==
    \/ BufferWrite(1)
    \/ WriteEntry(1)
    \/ UpdateMap(1)
    \/ MaySubmitWrite(1)
    \/ Provision
    \/ SubmitWrite
    \/ \E c \in inflight_rqs : CompleteWrite(c)
    \/ \E c \in inflight_rqs : CompleteWriteFail(c)
    \/ StartTeardown
    \/ \E b \in BlockIds : PadBlk(b)
    \/ \E b \in BlockIds : PutEmptyBlk(b)

SpecAlloc == Init /\ [][NextAlloc]_vars

\* one submitter, the media writer and the device, with the close-block write
\* of every block whose sync_bitmap became full and its completion
NextClose ==
    \/ BufferWrite(1)
    \/ WriteEntry(1)
    \/ UpdateMap(1)
    \/ MaySubmitWrite(1)
    \/ Provision
    \/ SubmitWrite
    \/ \E c \in inflight_rqs : CompleteWrite(c)
    \/ \E b \in BlockIds : CloseBlkWrite(b)
    \/ \E b \in BlockIds : \E error \in WriteErrors :
          EndIoWriteCloseBlk(b, error)

\* blocks of PagesPerBlk sectors, so that several blocks fill up and close
InitClose == Init /\ min_write_pgs = 1

SpecClose == InitClose /\ [][NextClose]_vars

\* the inflight accounting of large bios alone: a submitter accounts nr_secs
\* sectors after admission, a device completion releases them
InflightAdmit ==
    \E nr_secs \in InflightSecs :
        LET r == __pblk_may_submit_write(write_inflight, nr_secs)
        IN  /\ r.ok
            /\ write_inflight' = r.v
            /\ UNCHANGED <<pool, gcw, chk,
                           min_write_pgs, max_write_pgs, trans_map, rb, mem,
                           subm, sync, sync_point, compl_list, inflight_rqs,
                           blks, cur, prov_q, next_blk, media, sub, rd, nbio,
                           teardown, last, acks, bio_upto, loc, drained,
                   srd, emergency_gc, ret, pad, calc, wr, fw, cls, race>>

InflightRelease ==
    \E nr_valid \in InflightSecs :
        /\ write_inflight >= nr_valid
        /\ write_inflight' = InflightAfter(write_inflight,
                                           [nr_valid |-> nr_valid])
        /\ UNCHANGED <<pool, gcw, chk,
                       min_write_pgs, max_write_pgs, trans_map, rb, mem,
                       subm, sync, sync_point, compl_list, inflight_rqs,
                       blks, cur, prov_q, next_blk, media, sub, rd, nbio,
                       teardown, last, acks, bio_upto, loc, drained,
                   srd, emergency_gc, ret, pad, calc, wr, fw, cls, race>>

NextInflight == InflightAdmit \/ InflightRelease

SpecInflight == Init /\ [][NextInflight]_vars

\* ----------------------------------------------------------------- claims
\* the write requests submitted to the device and not yet retired
Unretired == inflight_rqs \cup {compl_list[k] : k \in 1 .. Len(compl_list)}

\* the ring positions a request's data entries cover
Covers(c) == c.sentry .. (c.sentry + c.nr_valid - 1)

\* C1: a read that has completed returned the payload of the latest write
\* or discard of its LBA admitted before its lookup, or of one that raced
\* with it
C1_ReadReturnsLatest ==
    \A r \in Readers : rd[r].pc = "done" => rd[r].fresh

\* C2: when a preflush bio has been ended, every ring position admitted up
\* to the bio's own last sector is retired and acknowledged by the device
C2_FlushDurable ==
    \A a \in acks :
        \A p \in 0 .. (bio_upto[a.bio] - 1) :
            /\ p < sync
            /\ loc[p][2] \in blks[loc[p][1]].sync_bitmap

\* C3: in every step sync does not decrease, the requests retired in the
\* step tile exactly the positions sync moved over, starting with the one
\* whose sentry is the old sync, and a request completing with another
\* sentry is parked on compl_list
C3_RetireInRingOrder ==
    [][LET Ret == Unretired \ Unretired'
       IN  /\ sync' >= sync
           /\ \A c \in Unretired' : c.sentry >= sync'
           /\ \A c \in Ret : Covers(c) \subseteq sync .. (sync' - 1)
           /\ \A p \in sync .. (sync' - 1) :
                  Cardinality({c \in Ret : p \in Covers(c)}) = 1
           /\ \A c \in inflight_rqs \ inflight_rqs' :
                  c.sentry # sync =>
                      \E k \in 1 .. Len(compl_list') : compl_list'[k] = c
      ]_vars

\* C3 witness: a request completed ahead of order was parked and later
\* retired from compl_list, and another one is parked now
C3_Witness == drained /\ compl_list # <<>> /\ sync > 0

C5_InflightBound == write_inflight <= InflightCap

C7_RingCursors ==
    /\ sync <= subm
    /\ subm <= mem
    /\ mem - sync <= RingSize

\* C7 witness: the ring is full behind a retirement, a writer run failed
\* after its commit (a committed position belongs to no request) and a
\* write failure marked a block bad
C7_Witness ==
    /\ sync > 0 /\ mem - sync = RingSize
    /\ \E p \in sync .. (subm - 1) : \A c \in Unretired : p \notin Covers(c)
    /\ \E b \in BlockIds : blks[b].bad

\* C8: per block, cur_sec <= nr_blk_dsecs, sector_bitmap is the prefix
\* [0, cur_sec), sync_bitmap and invalid_bitmap are subsets of it
C8_BlockBitmaps ==
    \A b \in BlockIds :
        /\ blks[b].cur_sec <= nr_blk_dsecs
        /\ blks[b].sector_bitmap = 0 .. (blks[b].cur_sec - 1)
        /\ blks[b].sync_bitmap \subseteq blks[b].sector_bitmap
        /\ blks[b].invalid_bitmap \subseteq blks[b].sector_bitmap

\* C8 witness: after teardown padding a block is full with padded sectors,
\* and a block holds an acknowledged data sector invalidated by an overwrite
C8_Witness ==
    /\ teardown
    /\ \E b \in BlockIds : /\ blks[b].nr_padded > 0
                            /\ blks[b].cur_sec = nr_blk_dsecs
    /\ \E b \in BlockIds :
           \E x \in blks[b].invalid_bitmap \cap blks[b].sync_bitmap :
               media[<<b, x>>] # NoData

\* C9: from every state and for every range, a second discard changes
\* neither the L2P map nor any block, the range is left unmapped with no
\* block, and the entries outside the range are unchanged
C9_DiscardIdempotent ==
    \A slba \in LBAs, nr_secs \in 1 .. NrLBAs :
        slba + nr_secs <= NrLBAs =>
            LET D1 == pblk_invalidate_range([tm |-> trans_map, blks |-> blks],
                                            slba, nr_secs)
                D2 == pblk_invalidate_range(D1, slba, nr_secs)
            IN  /\ D2 = D1
                /\ \A l \in LBAs :
                       IF l >= slba /\ l < slba + nr_secs
                       THEN ppa_empty(D1.tm[l].ppa) /\ D1.tm[l].rblk = 0
                       ELSE D1.tm[l] = trans_map[l]

\* C9 witness: a discard has unmapped an LBA that was mapped to a device
\* sector, now invalid in its block, while another LBA is still mapped
C9_Witness ==
    \E l \in LBAs :
        /\ last[l] = DiscardedDev
        /\ ppa_empty(trans_map[l].ppa) /\ trans_map[l].rblk = 0
        /\ \E b \in BlockIds : blks[b].nr_invalid_secs > 0
        /\ \E m \in LBAs : m # l /\ trans_map[m].rblk # 0

\* C10: while a reader is between pinning a cacheline entry and releasing
\* it, and the entry is still that cacheline, its read-pin bit is set
C10_PinHeld ==
    \A r \in Readers :
        (/\ rd[r].pc = "pinned" /\ rd[r].lookup_cache
         /\ trans_map[rd[r].lba].ppa = rd[r].ppa)
            => trans_map[rd[r].lba].rc = 1

\* C11: an overwrite of a pinned cacheline waits only while the read is being
\* classified: once the read is past classification the L2P update goes
\* through, the write bio and the read both complete, and a pinned sector is
\* returned with the payload it had when it was pinned
C11_ReadOverwriteProgress ==
    /\ [](srd.pc \in {"dev", "done"} => srd.fresh)
    /\ (sub[1].pc = "map" /\ srd.pc # "locked") ~> (sub[1].pc # "map")
    /\ (sub[1].pc # "idle") ~> (sub[1].pc = "idle")
    /\ (srd.pc # "idle") ~> (srd.pc = "done")

\* C12: in emergency-GC mode pblk_buffer_write admits no bio with data; the
\* call that returns NVM_IO_REQUEUE leaves the ring cursors, the L2P map and
\* write_inflight as they were
C12_EmergencyGate ==
    [][/\ emergency_gc =>
             \A t \in Submitters :
                sub[t].pc \in {"idle", "retry"} =>
                   \/ sub'[t] = sub[t]
                   \/ sub'[t].pc = "idle" /\ ret'[sub[t].bio] = "REQUEUE"
       /\ (\E b \in 1 .. MaxBios : ret[b] # "REQUEUE" /\ ret'[b] = "REQUEUE")
             => /\ emergency_gc
                /\ UNCHANGED <<mem, subm, sync, trans_map, write_inflight>>
      ]_vars

\* C12 witness: a bio was sent back while sectors of earlier bios are still in
\* the ring
C12_Witness ==
    /\ emergency_gc
    /\ \E b \in 1 .. MaxBios : ret[b] = "REQUEUE"
    /\ mem > sync

C14_FailedWriteRecovered ==
    [][\A c \in inflight_rqs \ inflight_rqs' :
          \A p \in Covers(c) :
             \/ p < sync'
             \/ \E d \in Unretired' : p \in Covers(d)
      ]_vars

\* C15: a read whose device I/O failed, on the cloned-bio path or on the
\* partial path, has its original bio ended once, with the error set
C15_ReadErrorSurfaced ==
    (srd.pc = "done" /\ srd.dev_error) => (srd.ended = 1 /\ srd.bi_error)

\* C16: entries the writer committed are written and retired also when the
\* run that committed them failed: sync catches up with subm again and again
\* (both only grow, so sync reaches every position subm has passed)
C16_CommittedEventuallySynced == []<>(sync = subm)

\* C17: pblk_pad_open_blks returns only with every open_list empty, and once
\* started it returns eventually
C17_TeardownReturns ==
    /\ [](pad.pc = "returned" => \A b \in BlockIds : ~blks[b].open)
    /\ teardown ~> (pad.pc = "returned")

C19_EndedOnce ==
    \A b \in 1 .. MaxBios :
        LET n == Cardinality({a \in acks : a.bio = b})
        IN  /\ n <= 1
            /\ ret[b] # "OK" => n = 0

\* the value the specification gives for pblk_calc_secs_to_sync
CalcReference(avail, to_flush, min, max) ==
    IF avail >= max \/ to_flush >= max THEN max
    ELSE IF avail >= min
         THEN LET M == {m \in 0 .. avail : m % min = 0}
              IN  CHOOSE m \in M : \A x \in M : x <= m
         ELSE IF to_flush > 0 THEN min ELSE 0

\* C20: pblk_calc_secs_to_sync returns the reference value; the result is a
\* multiple of min_write_pgs, at most max_write_pgs, and not zero when there
\* is something to flush
C20_CalcSecsToSync ==
    calc.secs_to_sync # -1 =>
        /\ calc.secs_to_sync = CalcReference(calc.secs_avail,
                                             calc.secs_to_flush,
                                             min_write_pgs, max_write_pgs)
        /\ calc.secs_to_sync % min_write_pgs = 0
        /\ calc.secs_to_sync <= max_write_pgs
        /\ calc.secs_to_flush > 0 => calc.secs_to_sync > 0

\* C20 witness: the function was applied in the flush branch, below
\* max_write_pgs, to a secs_avail that is not a multiple of min_write_pgs
C20_Witness ==
    /\ calc.secs_to_sync # -1
    /\ calc.secs_to_flush > 0
    /\ calc.secs_avail >= min_write_pgs /\ calc.secs_avail < max_write_pgs
    /\ calc.secs_avail % min_write_pgs # 0
    /\ calc.secs_to_sync > min_write_pgs * (calc.secs_to_flush \div
                                             min_write_pgs)

\* the data sectors pblk_setup_w_rq passes to the mapper, group after group
RECURSIVE SetupSecsSum(_, _, _)
SetupSecsSum(i, nr_secs, valid_secs) ==
    IF nr_secs = 1 THEN 1
    ELSE IF i >= nr_secs THEN 0
    ELSE SetupSecs(i, valid_secs)
             + SetupSecsSum(i + min_write_pgs, nr_secs, valid_secs)

\* the sectors bound to ring entries in all blocks together
TotalLbas(B) ==
    LET RECURSIVE Sum(_)
        Sum(b) == IF b > NrBlks THEN 0 ELSE B[b].nr_lbas + Sum(b + 1)
    IN  Sum(1)

C22_RlpgConsistent ==
    /\ [](\A b \in BlockIds :
             blks[b].nr_lbas + blks[b].nr_padded = blks[b].cur_sec)
    /\ [][\A b \in BlockIds :
             \A paddr \in blks[b].cur_sec .. (blks'[b].cur_sec - 1) :
                LET P == {p \in 0 .. (MaxPos - 1) :
                             loc'[p] = <<b, paddr>> /\ loc[p] # loc'[p]}
                IN  \/ /\ Cardinality(P) = 1
                       /\ \A p \in P :
                              LET w == rb'[pblk_rb_wrap_pos(p)]
                              IN  /\ w.paddr = paddr /\ w.rblk = b
                                  /\ w.lba = rb[pblk_rb_wrap_pos(p)].lba
                                  /\ blks'[b].lba_list[paddr] = w.lba
                       /\ blks'[b].nr_lbas > blks[b].nr_lbas
                    \/ /\ P = {}
                       /\ blks'[b].lba_list[paddr] = ADDR_EMPTY
                       /\ paddr \in blks'[b].invalid_bitmap
                       /\ paddr \in blks'[b].sync_bitmap
                       /\ blks'[b].nr_padded > blks[b].nr_padded
      ]_vars

\* C22 witness: a block holds a page of one data sector and one padding
\* sector, written for a flush, next to a page without padding
C22_Witness ==
    \E b \in BlockIds :
        /\ min_write_pgs = 2
        /\ blks[b].nr_lbas = 3 /\ blks[b].nr_padded = 1
        /\ blks[b].cur_sec = 4
        /\ \E x \in blks[b].sector_bitmap :
               /\ blks[b].lba_list[x] = ADDR_EMPTY
               /\ x \in blks[b].invalid_bitmap \cap blks[b].sync_bitmap

C24_MapperWaitsUnlocked ==
    /\ [](wr.pc = "yield" =>
             /\ ~wr.lun_lock
             /\ prov_q = <<>> \/ ENABLED MapRrLock)
    /\ []((wr.yielded /\ Len(prov_q) < block_pool_qd /\ next_blk <= NrBlks)
             => ENABLED Provision)
    /\ [][(wr.pc = "locked" /\ wr'.pc = "yield") =>
             /\ block_is_full(blks[cur]) \/ blks[cur].bad
             /\ prov_q = <<>>
             /\ UNCHANGED <<blks, rb, cur, prov_q, loc, inflight_rqs>>
             /\ wr'.c = wr.c /\ wr'.i = wr.i]_vars
    /\ (wr.yielded /\ next_blk <= NrBlks) ~> ~wr.yielded

\* C24 witness: the mapper waits for a block in the middle of a request, the
\* first group mapped, and the provisioner has put a block in the queue
C24_Witness ==
    /\ wr.pc = "yield" /\ wr.yielded /\ wr.i > 0
    /\ ~wr.lun_lock
    /\ prov_q # <<>>

\* C25: a sector of a block is handed out once: the sectors a step binds to
\* ring entries or pads lie at or beyond the block's old cur_sec, where nothing
\* was allocated, no two of them coincide, they fill the range cur_sec moved
\* over, and that range is a whole number of pages of min_write_pgs sectors;
\* no two ring positions ever hold the same sector
C25_SectorsHandedOnce ==
    /\ [](\A p, q \in 0 .. (MaxPos - 1) :
             (p # q /\ loc[p] = loc[q]) => loc[p] = <<0, 0>>)
    /\ [][\A b \in BlockIds :
             LET New == blks[b].cur_sec .. (blks'[b].cur_sec - 1)
                 P == {p \in 0 .. (MaxPos - 1) :
                          loc'[p] # loc[p] /\ loc'[p][1] = b}
                 Data == {loc'[p][2] : p \in P}
                 Pads == {x \in 0 .. (MaxDsecs - 1) :
                             /\ x \notin blks[b].invalid_bitmap
                             /\ x \in blks'[b].invalid_bitmap
                             /\ blks'[b].lba_list[x] = ADDR_EMPTY
                             /\ x \notin Data}
             IN  /\ blks'[b].cur_sec >= blks[b].cur_sec
                 /\ (blks'[b].cur_sec - blks[b].cur_sec) % min_write_pgs = 0
                 /\ New \cap blks[b].sector_bitmap = {}
                 /\ blks'[b].sector_bitmap = blks[b].sector_bitmap \cup New
                 /\ Cardinality(Data) = Cardinality(P)
                 /\ Data \cup Pads = New
                 /\ Cardinality(P) = blks'[b].nr_lbas - blks[b].nr_lbas
                 /\ Cardinality(Pads) = blks'[b].nr_padded - blks[b].nr_padded
      ]_vars

\* C25 witness: the teardown has padded a block that holds data up to full, a
\* block grew bad, and a ring position was mapped a second time by the
\* re-submission (more data sectors are bound than positions are mapped)
C25_Witness ==
    /\ teardown
    /\ \E b \in BlockIds :
           /\ blks[b].nr_padded > 0 /\ blks[b].nr_lbas > 0
           /\ block_is_full(blks[b])
    /\ \E b \in BlockIds : blks[b].bad /\ blks[b].nr_lbas > 0
    /\ TotalLbas(blks) >
           Cardinality({p \in 0 .. (MaxPos - 1) : loc[p] # <<0, 0>>})

\* C26: no context parked on compl_list starts at the sync position, and a
\* parked context always waits for a request with earlier positions that is
\* still in flight, so that it is retired when the last of them completes;
\* sync only moves forward, and every position it passes belongs to exactly
\* one completed request, which is gone afterwards (retired once)
C26_NoneStranded ==
    /\ [](\A k \in 1 .. Len(compl_list) :
             /\ compl_list[k].sentry # sync
             /\ \E d \in inflight_rqs : d.sentry < compl_list[k].sentry)
    /\ [][/\ sync' >= sync
          /\ \A p \in sync .. (sync' - 1) :
                /\ Cardinality({c \in Unretired : p \in Covers(c)}) = 1
                /\ \A c \in Unretired' : p \notin Covers(c)
      ]_vars

\* the sectors of a sequence
SeqRange(q) == {q[k] : k \in 1 .. Len(q)}

\* C27: on a failed data write only failing bits below nr_valid, data
\* sectors and never padding sectors, are looked up in the ring and appended
\* to the recovery list, and of a request of several sectors every one of
\* them is: the scan stops at the first failing bit at or beyond nr_valid
C27_OnlyDataScanned ==
    fw.pc = "done" =>
        /\ fw.scanned \subseteq 0 .. (fw.nr_valid - 1)
        /\ SeqRange(fw.failed) \subseteq fw.scanned
        /\ fw.nr_ppas > 1 =>
               fw.scanned = {b \in fw.comp_bits : b < fw.nr_valid}

\* C28: on a failed data write of several sectors whose failing sectors are
\* data sectors, pblk_run_recovery is called exactly once for every block that
\* holds a failing sector of the request and for no other block, wherever the
\* failing sectors are (pages that alternate between the blocks of two LUNs
\* included)
C28_RecoveryOncePerBlock ==
    (fw.pc = "done" /\ fw.nr_ppas > 1
                    /\ \A bit \in fw.comp_bits : bit < fw.nr_valid) =>
        \A b \in 1 .. NrLuns :
           Cardinality({k \in 1 .. Len(fw.recov) : fw.recov[k] = b}) =
              IF \E bit \in fw.comp_bits : FwBlk(fw, bit) = b THEN 1 ELSE 0

C40_ReadInRangePasses ==
    (chk.pc # "call" /\ chk.pc # "idle") => chk.pc = "passed"

\* C39: write_inflight is never negative: a completion subtracts only
\* sectors that the admitting thread has already added, so that the counter
\* is the number of accounted sectors whose write has not completed
C39_InflightBalanced == write_inflight >= 0

\* C35: once a two-sector read is past classification, and no other reader
\* is active, no L2P entry of its range is left with the read-pin set
C35_PinsReleased ==
    srd.pc \in {"dev", "done"} =>
        \A i \in SeqIdx : trans_map[srd.lba + i].rc = 0

C37_FullBlockSkipped ==
    (pad.pc \notin {"none", "open"} /\ pad.f0 = 0) =>
        /\ pad.rqs = 0 /\ pad.maps = 0 /\ pad.subs = 0
        /\ pad.blk.cur_sec = nr_blk_dsecs
        /\ bitmap_full(pad.blk.sector_bitmap)
        /\ bitmap_full(pad.blk.sync_bitmap)

\* C38: pblk_pad_blk on an open block with f > 0 free sectors, f a multiple
\* of min_write_pgs, sets up every pad request it allocates (no request
\* stops at an assertion), and once it is through without an allocation or
\* submission error the batches are at most max_write_pgs each, sum to f and
\* carry nr_valid = 0, the block is full, every padded sector is invalid and
\* synced, the close has been scheduled once, and the ring cursors,
\* compl_list and write_inflight are untouched
C38_TeardownPadding ==
    (pad.f0 > 0 /\ pad.f0 % min_write_pgs = 0 /\ pad.f0 # nr_blk_dsecs) =>
        /\ pad.pc # "BUG"
        /\ pad.pc = "done" =>
              /\ PaddedSecs(pad.batches) = pad.f0
              /\ \A j \in 1 .. Len(pad.batches) :
                     /\ pad.batches[j].nr_valid = 0
                     /\ pad.batches[j].nr_padded <= max_write_pgs
              /\ pad.blk.cur_sec = nr_blk_dsecs
              /\ \A x \in (nr_blk_dsecs - pad.f0) .. (nr_blk_dsecs - 1) :
                     x \in pad.blk.invalid_bitmap /\ x \in pad.blk.sync_bitmap
              /\ pad.blk.closes = 1
              /\ mem = 0 /\ subm = 0 /\ sync = 0
              /\ compl_list = <<>> /\ write_inflight = 0

\* C36: a call of pblk_write_list_to_cache with a list of nr_rec_secs LBAs
\* is admitted iff the ring has room for nr_rec_secs entries, whatever the
\* emergency-GC mode; when admitted it has reserved the positions mem ..
\* mem + nr_rec_secs - 1, written the LBAs there in list order with no bio
\* attached, published each as the cacheline of its slot, taken one
\* reference per admitted sector and added nr_rec_secs to write_inflight;
\* when refused it has reserved and written nothing and taken no reference
C36_GcAdmission ==
    LET n == gcw.nr_rec_secs
        lbas == SelectSeq(gcw.lba_list, LAMBDA x : x # ADDR_EMPTY)
    IN  gcw.pc = "done" =>
            /\ gcw.ret = "OK" <=> gcw.mem0 + n - gcw.sync0 <= RingSize
            /\ gcw.ret = "OK" =>
                   /\ gcw.pos = gcw.mem0 /\ mem = gcw.mem0 + n
                   /\ Len(gcw.wrote) = n
                   /\ \A k \in 1 .. Len(gcw.wrote) :
                          /\ gcw.wrote[k].pos = gcw.mem0 + k - 1
                          /\ gcw.wrote[k].lba = lbas[k]
                          /\ gcw.wrote[k].bio = 0
                          /\ gcw.wrote[k].ppa =
                                 [t |-> "cache",
                                  a |-> (gcw.mem0 + k - 1) % RingSize,
                                  s |-> 0]
                   /\ gcw.ref = n
                   /\ gcw.added = n
            /\ gcw.ret # "OK" =>
                   /\ gcw.ret = "-1"
                   /\ mem = gcw.mem0
                   /\ gcw.wrote = <<>> /\ gcw.ref = 0 /\ gcw.added = 0

\* C36 witness: a list with an ADDR_EMPTY entry before its LBA has been
\* admitted while the device is in emergency-GC mode
C36_Witness ==
    /\ gcw.pc = "done" /\ gcw.ret = "OK" /\ gcw.gc_mode
    /\ gcw.lba_list[1] = ADDR_EMPTY
    /\ gcw.ref = 1 /\ Len(gcw.wrote) = 1

\* the blocks the queue holds: those the provisioner pushed and
\* pblk_block_pool_get has not popped
QueueHolds ==
    (Len(pool.got) - (IF pool.ppc \in {"lock", "add"} THEN 1 ELSE 0))
    - (Len(pool.open_list)
       + (IF pool.gpc \in {"dec", "move", "moving"} THEN 1 ELSE 0))

\* C33: every block pblk_get_blk returned was erased successfully, is not
\* marked bad, has cur_sec = 0, nr_invalid_secs = 0 and OPEN metadata; every
\* block whose erase failed is marked bad and was put back exactly once, by
\* the time of the next nvm_get_blk; a NULL return happened only because the
\* metadata could not be allocated or the media manager had no block left,
\* and no RLPG is held after it.
C33_GetBlkReturns ==
    /\ \A k \in 1 .. Len(pool.got) :
          /\ pool.meta[pool.got[k]].erased
          /\ pool.got[k] \notin pool.bad
          /\ pool.meta[pool.got[k]].cur_sec = 0
          /\ pool.meta[pool.got[k]].nr_invalid_secs = 0
          /\ pool.meta[pool.got[k]].status = "OPEN"
    /\ \A b \in BlockIds : pool.put[b] = (IF b \in pool.bad THEN 1 ELSE 0)
    /\ \A b \in pool.bad : b \notin pool.free /\ ~pool.meta[b].erased
    /\ \A n \in pool.nil :
          /\ n.why = "meta" \/ (n.why = "noblk" /\ n.free = {})
          /\ ~n.rlpg
    /\ pool.ppc \in {"scan", "alloc"} => ~pool.rlpg

\* C33 witness: pblk_get_blk returned a block after the erase of an earlier
\* one had failed, and a later call returned NULL for want of blocks.
C33_Witness ==
    /\ pool.bad # {}
    /\ Len(pool.got) >= 1
    /\ \E n \in pool.nil : n.why = "noblk"

\* C31: with the queue lock free the LUN's bit is set exactly if the queue
\* holds block_pool_qd blocks, and the queue never holds more than that.
C31_BitTracksQueue ==
    /\ QueueHolds <= block_pool_qd
    /\ pool.lock = "free" => (pool.bit <=> QueueHolds = block_pool_qd)

\* C31 witness: the queue was refilled to its depth after a block had been
\* popped from it, and the bit is set again with the lock free.
C31_Witness ==
    /\ pool.lock = "free"
    /\ pool.bit
    /\ pool.open_list # <<>>
    /\ QueueHolds = block_pool_qd

\* C32: with the queue lock free nr_elems is the number of blocks linked on
\* the queue list, and while the provisioner appends to the list no block
\* that pblk_block_pool_get popped is still linked on it.
C32_QueueListConsistent ==
    /\ pool.lock = "free" => pool.nr_elems = Len(pool.list)
    /\ pool.ppc = "add" =>
          ~(/\ pool.gpc \in {"move", "moving"}
            /\ \E k \in 1 .. Len(pool.list) : pool.list[k] = pool.grblk)

====
